---------------------------- MODULE Spec2Model ----------------------------
(***************************************************************************)
(* Cultural Algorithm for cloud resource allocation (AI_Cloud_GA).         *)
(*                                                                         *)
(* The module models src/cloud_environment.py (Task, Resource, simulate)   *)
(* and src/cultural_algorithm.py (Individual, BeliefSpace,                 *)
(* CulturalAlgorithm).  Python floats are modelled as binary floating      *)
(* point numbers <<m, e>> (value m * 2^e) with MantBits bits of mantissa   *)
(* and round-half-to-even, every arithmetic operation rounding its exact   *)
(* result as IEEE 754 does; the exponent is unbounded.  Every value that   *)
(* random.random(), random.randint(), random.sample() and random.choice()  *)
(* can return is a nondeterministic choice.                                *)
(***************************************************************************)
EXTENDS Integers, Sequences, FiniteSets, TLC

(***************************************************************************)
(* Bounds of the model.                                                    *)
(***************************************************************************)
\* bits of mantissa of a float (53 in CPython)
MantBits == 10

(***************************************************************************)
(* Floating point arithmetic.                                              *)
(***************************************************************************)
Pow2(k) == 2 ^ k

Abs(x) == IF x < 0 THEN -x ELSE x

Max(a, b) == IF a >= b THEN a ELSE b

Min(a, b) == IF a <= b THEN a ELSE b

\* n/d * 2^e scaled so that 2^(MantBits-1) <= n/d < 2^MantBits   (n > 0, d > 0)
RECURSIVE Normalize(_, _, _)
Normalize(n, d, e) ==
    IF n < Pow2(MantBits - 1) * d THEN Normalize(2 * n, d, e - 1)
    ELSE IF n >= Pow2(MantBits) * d THEN Normalize(n, 2 * d, e + 1)
    ELSE <<n, d, e>>

\* the mantissa m (possibly 2^MantBits after rounding up) with exponent e
Renormalize(m, e) ==
    IF m = Pow2(MantBits) THEN <<Pow2(MantBits - 1), e + 1>> ELSE <<m, e>>

\* quotient q and remainder r of a division by d, rounded half to even
RoundHalfEven(q, r, d) ==
    IF (2 * r > d) \/ (2 * r = d /\ q % 2 = 1) THEN q + 1 ELSE q

\* the float nearest to s[1]/s[2] * 2^s[3] for a normalized s
RoundNormalized(s) ==
    Renormalize(RoundHalfEven(s[1] \div s[2], s[1] % s[2], s[2]), s[3])

\* the float nearest to n/d * 2^e, ties to the even mantissa   (n >= 0, d > 0)
RoundPos(n, d, e) ==
    IF n = 0 THEN <<0, 0>> ELSE RoundNormalized(Normalize(n, d, e))

FNeg(a) == <<-a[1], a[2]>>

\* x, negated when negative holds
WithSign(negative, x) == IF negative THEN FNeg(x) ELSE x

\* the float nearest to n/d * 2^e, n of either sign
FRound(n, d, e) == WithSign(n < 0, RoundPos(Abs(n), d, e))

\* float(k) for an int k
FromInt(k) == FRound(k, 1, 0)

\* hi + lo for nonzero floats, hi of the larger exponent
AddOrdered(hi, lo) ==
    IF hi[2] - lo[2] > MantBits + 1 THEN hi
    ELSE FRound(hi[1] * Pow2(hi[2] - lo[2]) + lo[1], 1, lo[2])

\* a + b
FAdd(a, b) ==
    IF a[1] = 0 THEN b
    ELSE IF b[1] = 0 THEN a
    ELSE IF a[2] >= b[2] THEN AddOrdered(a, b)
    ELSE AddOrdered(b, a)

\* a - b
FSub(a, b) == FAdd(a, FNeg(b))

\* a * b
FMul(a, b) == FRound(a[1] * b[1], 1, a[2] + b[2])

\* a / b   (b # 0)
FDiv(a, b) ==
    WithSign((a[1] < 0) # (b[1] < 0), RoundPos(Abs(a[1]), Abs(b[1]), a[2] - b[2]))

\* a < b for floats of one sign, none zero
LessSameSign(a, b) ==
    IF a[2] >= b[2]
    THEN IF a[2] - b[2] > MantBits + 1 THEN a[1] < 0
         ELSE a[1] * Pow2(a[2] - b[2]) < b[1]
    ELSE IF b[2] - a[2] > MantBits + 1 THEN b[1] > 0
         ELSE a[1] < b[1] * Pow2(b[2] - a[2])

\* a < b
FLess(a, b) ==
    IF a[1] = 0 THEN b[1] > 0
    ELSE IF b[1] = 0 THEN a[1] < 0
    ELSE IF (a[1] < 0) # (b[1] < 0) THEN a[1] < 0
    ELSE LessSameSign(a, b)

\* a > b
FGreater(a, b) == FLess(b, a)

\* a >= b
FGeq(a, b) == ~FLess(a, b)

\* float literals of the sources
F0 == FromInt(0)
F1 == FromInt(1)
F04 == FRound(4, 10, 0)
F06 == FRound(6, 10, 0)
F1000 == FromInt(1000)
F10000 == FromInt(10000)

\* float('-inf')
NegInf == <<-1, 0, 0>>

\* a > b where b may be float('-inf')
PyGreater(a, b) ==
    IF a = NegInf THEN FALSE
    ELSE IF b = NegInf THEN TRUE
    ELSE FGreater(a, b)

(***************************************************************************)
(* Python values.                                                          *)
(***************************************************************************)
\* None where an Individual is expected
None == [none |-> TRUE]

\* None where a number or a pair of numbers is expected
NoneNum == <<>>

\* an exception leaving a call
Raise(kind) == [error |-> kind]

IsError(v) == "error" \in DOMAIN v

\* seq[i] is defined for a Python index i (negative indices count from the end)
InRange(seq, i) == -Len(seq) <= i /\ i < Len(seq)

\* seq[i] for a Python index i in range
PyItem(seq, i) == IF i < 0 THEN seq[Len(seq) + i + 1] ELSE seq[i + 1]

\* seq[:n] for n >= 0
Take(seq, n) == SubSeq(seq, 1, Min(n, Len(seq)))

\* seq[n:] for n >= 0
Drop(seq, n) == SubSeq(seq, Min(n, Len(seq)) + 1, Len(seq))

(***************************************************************************)
(* cloud_environment.py                                                    *)
(***************************************************************************)
Task(task_id, length) == [id |-> task_id, length |-> length]

Resource(resource_id, speed, cost) == [id |-> resource_id, speed |-> speed, cost |-> cost]

\* {task.id: idx for idx, task in enumerate(tasks)}: a later task with the
\* same id overwrites the entry of an earlier one
task_id_to_index(tasks) ==
    [tid \in {tasks[k].id : k \in 1..Len(tasks)} |->
        (CHOOSE k \in 1..Len(tasks) :
            /\ tasks[k].id = tid
            /\ \A j \in 1..Len(tasks) : tasks[j].id = tid => j <= k) - 1]

\* a variant of the lookup that takes the task's id for its position
TaskIndexIsId(tasks, k) == tasks[k].id

\* task_id_to_index[task.id] for the k-th task of the list
TaskIndex(tasks, k) == task_id_to_index(tasks)[tasks[k].id]

\* the running sums after one more execution
AddExecution(acc, execution_time, cost) ==
    [total_time |-> FAdd(acc.total_time, execution_time),
     total_cost |-> FAdd(acc.total_cost, FMul(execution_time, cost))]

\* the running sums after the task ran on the resource
AddTask(acc, task, resource) ==
    AddExecution(acc, FDiv(task.length, resource.speed), resource.cost)

\* the loop of simulate from the k-th task on, acc holding the two running sums
RECURSIVE SimulateLoop(_, _, _, _, _)
SimulateLoop(tasks, resources, assignment, k, acc) ==
    IF k > Len(tasks) THEN acc
    ELSE IF ~InRange(assignment, TaskIndex(tasks, k)) THEN Raise("IndexError")
    ELSE IF ~InRange(resources, PyItem(assignment, TaskIndex(tasks, k)))
         THEN Raise("IndexError")
    ELSE IF PyItem(resources, PyItem(assignment, TaskIndex(tasks, k))).speed[1] = 0
         THEN Raise("ZeroDivisionError")
    ELSE SimulateLoop(tasks, resources, assignment, k + 1,
             AddTask(acc, tasks[k],
                     PyItem(resources, PyItem(assignment, TaskIndex(tasks, k)))))

\* simulate(tasks, resources, assignment): the result dictionary, or the
\* exception raised
simulate(tasks, resources, assignment) ==
    SimulateLoop(tasks, resources, assignment, 1, [total_time |-> F0, total_cost |-> F0])

(***************************************************************************)
(* cultural_algorithm.py: Individual                                       *)
(***************************************************************************)
\* Individual(assignment, tasks, resources); tasks and resources are those of
\* the run and are kept in the run's state.  buffer names the list object that
\* self.assignment refers to: two individuals of the same buffer share one
\* list.  It is 0 for a list no run holds.
Individual(assignment) ==
    [assignment |-> assignment, fitness |-> NoneNum, fitness_score |-> NoneNum,
     buffer |-> 0]

\* the individual built on the new list object named buffer
Allocated(individual, buffer) == [individual EXCEPT !.buffer = buffer]

\* a variant of copy.deepcopy that hands back the object it was given
SameObject(individual, buffer) == individual

\* copy.deepcopy(individual): the same values on a new list object
deepcopy(individual, buffer) == [individual EXCEPT !.buffer = buffer]

\* the object after some holder of the list object buffer wrote the
\* assignment into it: lists are shared by reference
Written(individual, buffer, assignment) ==
    IF "buffer" \in DOMAIN individual /\ individual.buffer = buffer
    THEN [individual EXCEPT !.assignment = assignment]
    ELSE individual

\* the list of individuals after such a write
WrittenAll(individuals, buffer, assignment) ==
    [k \in 1..Len(individuals) |-> Written(individuals[k], buffer, assignment)]

\* 1.0 / (1.0 + metric)
Reciprocal(metric) == FDiv(F1, FAdd(F1, metric))

\* 1.0 / (1.0 + 0.4 * normalized_time + 0.6 * normalized_cost)
WeightedFitness(normalized_time, normalized_cost) ==
    FDiv(F1, FAdd(FAdd(F1, FMul(F04, normalized_time)), FMul(F06, normalized_cost)))

\* a variant of fitness_of whose cost and time branches are exchanged
fitness_of_exchanged(total_time, total_cost, objective) ==
    IF objective = "cost" THEN Reciprocal(total_time)
    ELSE IF objective = "time" THEN Reciprocal(total_cost)
    ELSE WeightedFitness(FDiv(total_time, F1000), FDiv(total_cost, F10000))

\* the fitness of a (total_time, total_cost) pair under a known objective
fitness_of(total_time, total_cost, objective) ==
    IF objective = "cost" THEN Reciprocal(total_cost)
    ELSE IF objective = "time" THEN Reciprocal(total_time)
    ELSE WeightedFitness(FDiv(total_time, F1000), FDiv(total_cost, F10000))

\* evaluate_fitness once simulate returned result
Evaluated(individual, result, objective) ==
    IF IsError(result) THEN result
    ELSE IF objective \notin {"cost", "time", "weighted"} THEN Raise("ValueError")
    ELSE [individual EXCEPT
             !.fitness_score = <<result.total_time, result.total_cost>>,
             !.fitness = fitness_of(result.total_time, result.total_cost, objective)]

\* a variant of evaluate_fitness that keeps a fitness the individual already
\* has
evaluate_fitness_cached(individual, tasks, resources, objective) ==
    IF individual.fitness # NoneNum THEN individual
    ELSE Evaluated(individual, simulate(tasks, resources, individual.assignment), objective)

\* individual.evaluate_fitness(objective): the individual afterwards, or the
\* exception raised
evaluate_fitness(individual, tasks, resources, objective) ==
    Evaluated(individual, simulate(tasks, resources, individual.assignment), objective)

(***************************************************************************)
(* cultural_algorithm.py: BeliefSpace                                      *)
(***************************************************************************)
F05 == FRound(1, 2, 0)
F02 == FRound(2, 10, 0)
F03 == FRound(3, 10, 0)

\* list(range(n))
Range0(n) == [i \in 1..n |-> i - 1]

\* int(x) for a float x: truncation towards zero
FTrunc(x) ==
    IF x[2] >= 0 THEN x[1] * Pow2(x[2])
    ELSE IF -x[2] >= MantBits THEN 0
    ELSE IF x[1] < 0 THEN -((-x[1]) \div Pow2(-x[2]))
    ELSE x[1] \div Pow2(-x[2])

\* seq[:n] for any int n
SliceTo(seq, n) == IF n < 0 THEN Take(seq, Max(0, Len(seq) + n)) ELSE Take(seq, n)

\* sum(seq) of floats, from the int 0, left to right
RECURSIVE FSum(_)
FSum(seq) == IF seq = <<>> THEN F0 ELSE FAdd(FSum(Take(seq, Len(seq) - 1)), seq[Len(seq)])

\* BeliefSpace(num_tasks, num_resources)
BeliefSpace(num_tasks, num_resources) ==
    [num_tasks |-> num_tasks,
     num_resources |-> num_resources,
     best_individual |-> None,
     best_fitness |-> NegInf,
     normative_ranges |->
         [t \in 1..num_tasks |->
             [lower |-> 0, upper |-> num_resources - 1, preferred |-> Range0(num_resources)]],
     domain_stats |->
         [avg_fitness |-> F0, fitness_variance |-> F0,
          resource_usage |-> [r \in 1..num_resources |-> 0]]]

\* the belief space after update's situational loop visited one individual
VisitAccepted(bs, individual, buffer) ==
    IF PyGreater(individual.fitness, bs.best_fitness)
    THEN [bs EXCEPT !.best_fitness = individual.fitness,
                    !.best_individual = deepcopy(individual, buffer)]
    ELSE bs

\* the situational part of update: the first k accepted individuals visited
RECURSIVE UpdateSituational(_, _, _, _)
UpdateSituational(bs, accepted, k, buffer) ==
    IF k = 0 THEN bs
    ELSE VisitAccepted(UpdateSituational(bs, accepted, k - 1, buffer), accepted[k], buffer)

\* resource_counts[i] of update at a task position (0-based)
ResourceCount(accepted, task_idx, i) ==
    Cardinality({k \in 1..Len(accepted) : accepted[k].assignment[task_idx + 1] = i})

\* max(resource_counts) at a task position
MaxCount(accepted, num_resources, task_idx) ==
    CHOOSE c \in {ResourceCount(accepted, task_idx, i) : i \in 0..(num_resources - 1)} :
        \A i \in 0..(num_resources - 1) : ResourceCount(accepted, task_idx, i) <= c

\* a variant of the threshold that halves max_count in integers
AtLeastHalfFloored(count, max_count) == count >= max_count \div 2

\* a variant of the threshold that every count passes
AnyCount(count, max_count) == count >= 0

\* count >= max_count * 0.5
AtLeastHalf(count, max_count) == FGeq(FromInt(count), FMul(FromInt(max_count), F05))

\* a variant of the preferred list that keeps only the most-used resources
PreferredMostUsed(accepted, num_resources, task_idx, max_count) ==
    SelectSeq(Range0(num_resources),
              LAMBDA i : ResourceCount(accepted, task_idx, i) = max_count)

\* the preferred list for a task position, max_count being the largest count
PreferredFor(accepted, num_resources, task_idx, max_count) ==
    IF max_count > 0
    THEN SelectSeq(Range0(num_resources),
                   LAMBDA i : AtLeastHalf(ResourceCount(accepted, task_idx, i), max_count))
    ELSE Range0(num_resources)

\* the preferred list update stores for a task position
Preferred(accepted, num_resources, task_idx) ==
    PreferredFor(accepted, num_resources, task_idx,
                 MaxCount(accepted, num_resources, task_idx))

\* the normative part of update
UpdateNormative(bs, accepted) ==
    [bs EXCEPT !.normative_ranges =
        [t \in 1..bs.num_tasks |->
            [bs.normative_ranges[t] EXCEPT
                !.preferred = Preferred(accepted, bs.num_resources, t - 1)]]]

\* the number of genes of the individual assigned to resource r
GenesOn(individual, r) ==
    Cardinality({t \in 1..Len(individual.assignment) : individual.assignment[t] = r})

\* the number of genes of the first k individuals assigned to resource r
RECURSIVE ResourceUsage(_, _, _)
ResourceUsage(population, r, k) ==
    IF k = 0 THEN 0 ELSE ResourceUsage(population, r, k - 1) + GenesOn(population[k], r)

\* [ind.fitness for ind in population]
Fitnesses(population) == [k \in 1..Len(population) |-> population[k].fitness]

\* sum(seq) / len(seq)
Mean(seq) == FDiv(FSum(seq), FromInt(Len(seq)))

\* (f - avg) ** 2
SquaredDeviation(f, avg) == FMul(FSub(f, avg), FSub(f, avg))

\* the variance of the fitnesses about avg
Variance(fitnesses, avg) ==
    Mean([k \in 1..Len(fitnesses) |-> SquaredDeviation(fitnesses[k], avg)])

\* a variant of the domain statistics that adds the usage counts to the
\* earlier ones and averages the mean with the earlier mean
DomainStatsAccumulated(bs, population, fitnesses, avg) ==
    [avg_fitness |-> FMul(F05, FAdd(bs.domain_stats.avg_fitness, avg)),
     fitness_variance |-> Variance(fitnesses, avg),
     resource_usage |->
         [r \in 1..bs.num_resources |->
             bs.domain_stats.resource_usage[r]
                 + ResourceUsage(population, r - 1, Len(population))]]

\* domain_stats for the fitnesses and their mean
DomainStats(bs, population, fitnesses, avg) ==
    [avg_fitness |-> avg,
     fitness_variance |-> Variance(fitnesses, avg),
     resource_usage |->
         [r \in 1..bs.num_resources |-> ResourceUsage(population, r - 1, Len(population))]]

\* the domain part of update
UpdateDomain(bs, population) ==
    IF population = <<>> THEN bs
    ELSE [bs EXCEPT !.domain_stats =
             DomainStats(bs, population, Fitnesses(population), Mean(Fitnesses(population)))]

\* the name of the list object of the belief space's copy of the best
\* individual: the population's lists are named 1..len(population), the
\* driver's copy of the best individual len(population) + 1
BeliefBuffer(population) == Len(population) + 2

\* belief_space.update(population, accepted) on well-formed assignments
update(bs, population, accepted) ==
    IF accepted = <<>> THEN bs
    ELSE UpdateDomain(
             UpdateNormative(UpdateSituational(bs, accepted, Len(accepted),
                                               BeliefBuffer(population)),
                             accepted),
             population)

\* the values a call of random.random() returns in the model: 0.0 and 0.75
RandomValues == {F0, FRound(3, 4, 0)}

\* influence runs its situational part when random.random() returned u
SituationalRuns(bs, u) == bs.best_individual # None /\ FLess(u, F02)

\* influence overwrites task position t (1-based) when random.random() returned u
NormativeRuns(bs, t, u) == FLess(u, F03) /\ bs.normative_ranges[t].preferred # <<>>

\* a variant of the samples whose size goes up to half the positions
SituationalSamplesHalf(n) ==
    {ps \in SUBSET (0..(n - 1)) : Cardinality(ps) \in 1..Max(1, n \div 2)}

\* the sets of positions random.sample(range(n), num_genes) can return for the
\* values num_genes = random.randint(1, max(1, n // 3)) can take
SituationalSamples(n) ==
    {ps \in SUBSET (0..(n - 1)) : Cardinality(ps) \in 1..Max(1, n \div 3)}

\* the indices random.choice can pick in the preferred lists, 0 where no choice
\* is made
NormativeChoices(bs, n, normative) ==
    {c \in [1..n -> 0..Max(0, bs.num_resources - 1)] :
        \A t \in 1..n :
            IF NormativeRuns(bs, t, normative[t])
            THEN c[t] < Len(bs.normative_ranges[t].preferred)
            ELSE c[t] = 0}

\* the draws of a call of influence that passed its gate with the per-position
\* draws normative
AppliedDraws(bs, n, g, u, normative) ==
    {[gate |-> g, situational |-> u, positions |-> ps, normative |-> normative,
      choice |-> c] :
        ps \in IF SituationalRuns(bs, u) THEN SituationalSamples(n) ELSE {{}},
        c \in NormativeChoices(bs, n, normative)}

\* the draws one call of influence can make on an assignment of n genes, its
\* first two random.random() being g and u: gate and situational are those
\* two, positions is the random.sample, normative[t] the random.random() of
\* task position t and choice[t] the index random.choice picks in that
\* position's preferred list.  Draws the call does not make are left at a
\* fixed value.
InfluenceDraws(bs, n, influence_rate, g, u) ==
    IF FGreater(g, influence_rate)
    THEN {[gate |-> g, situational |-> F0, positions |-> {},
           normative |-> [t \in 1..n |-> F0], choice |-> [t \in 1..n |-> 0]]}
    ELSE UNION {AppliedDraws(bs, n, g, u, normative) :
                    normative \in [1..n -> RandomValues]}

\* the assignment after the situational part of influence
SituationalInfluence(bs, assignment, d) ==
    IF SituationalRuns(bs, d.situational)
    THEN [t \in 1..Len(assignment) |->
             IF (t - 1) \in d.positions THEN bs.best_individual.assignment[t]
             ELSE assignment[t]]
    ELSE assignment

\* the assignment after the normative part of influence
NormativeInfluence(bs, assignment, d) ==
    [t \in 1..Len(assignment) |->
        IF NormativeRuns(bs, t, d.normative[t])
        THEN bs.normative_ranges[t].preferred[d.choice[t] + 1]
        ELSE assignment[t]]

\* a variant of influence that applies the normative part first
influence_normative_first(bs, individual, influence_rate, d) ==
    IF FGreater(d.gate, influence_rate) THEN individual
    ELSE [individual EXCEPT !.assignment =
             SituationalInfluence(bs, NormativeInfluence(bs, @, d), d)]

\* belief_space.influence(individual, influence_rate) under the draws d: the
\* individual afterwards
influence(bs, individual, influence_rate, d) ==
    IF FGreater(d.gate, influence_rate) THEN individual
    ELSE [individual EXCEPT !.assignment =
             NormativeInfluence(bs, SituationalInfluence(bs, @, d), d)]

(***************************************************************************)
(* cultural_algorithm.py: CulturalAlgorithm                                *)
(***************************************************************************)
\* the sorted list with x put after every element whose fitness is >= x.fitness
InsertByFitness(sorted, x) ==
    [k \in 1..(Len(sorted) + 1) |->
        IF k <= Len(sorted) /\ FGeq(sorted[k].fitness, x.fitness) THEN sorted[k]
        ELSE IF k = 1 \/ FGeq(sorted[k - 1].fitness, x.fitness) THEN x
        ELSE sorted[k - 1]]

\* list.sort(key=lambda x: x.fitness, reverse=True): stable, descending
RECURSIVE SortByFitness(_)
SortByFitness(seq) ==
    IF Len(seq) <= 1 THEN seq
    ELSE InsertByFitness(SortByFitness(Take(seq, Len(seq) - 1)), seq[Len(seq)])

\* selection: tournament_size = 3
tournament_size == 3

\* the ordered samples random.sample(population, k) can return, as positions
Samples(n, k) ==
    {s \in [1..k -> 1..n] : \A i, j \in 1..k : i # j => s[i] # s[j]}

\* a variant of the choice in a tournament that takes its first member
FirstOfTournament(population, tournament) == population[tournament[1]]

\* max(tournament, key=lambda x: x.fitness): the first of the largest
MaxByFitness(population, tournament) ==
    LET best == CHOOSE i \in 1..Len(tournament) :
                    /\ \A j \in 1..Len(tournament) :
                           FGeq(population[tournament[i]].fitness,
                                population[tournament[j]].fitness)
                    /\ \A j \in 1..(i - 1) :
                           FLess(population[tournament[j]].fitness,
                                 population[tournament[i]].fitness)
    IN  population[tournament[best]]

\* selection() under the two samples drawn: the two parents
selection(population, tournament1, tournament2) ==
    <<MaxByFitness(population, tournament1), MaxByFitness(population, tournament2)>>

\* a variant of crossover whose copy branch returns the parents themselves
crossover_by_reference(parent1, parent2, crossover_rate, u, point, fresh) ==
    IF FGreater(u, crossover_rate)
    THEN <<parent1, parent2>>
    ELSE <<Allocated(Individual(Take(parent1.assignment, point)
                                   \o Drop(parent2.assignment, point)), fresh[1]),
           Allocated(Individual(Take(parent2.assignment, point)
                                   \o Drop(parent1.assignment, point)), fresh[2])>>

\* a variant of crossover that cuts one position earlier, as if the point were
\* drawn by random.randint(0, len(tasks) - 2)
crossover_cut_earlier(parent1, parent2, crossover_rate, u, point, fresh) ==
    IF FGreater(u, crossover_rate)
    THEN <<deepcopy(parent1, fresh[1]), deepcopy(parent2, fresh[2])>>
    ELSE <<Allocated(Individual(Take(parent1.assignment, point - 1)
                                   \o Drop(parent2.assignment, point - 1)), fresh[1]),
           Allocated(Individual(Take(parent2.assignment, point - 1)
                                   \o Drop(parent1.assignment, point - 1)), fresh[2])>>

\* crossover(parent1, parent2) under the draws u = random.random() and
\* point = random.randint(1, len(tasks) - 1): the two children, on the new
\* list objects fresh[1] and fresh[2]; copy.deepcopy keeps the parent's fitness
\* and fitness_score
crossover(parent1, parent2, crossover_rate, u, point, fresh) ==
    IF FGreater(u, crossover_rate)
    THEN <<deepcopy(parent1, fresh[1]), deepcopy(parent2, fresh[2])>>
    ELSE <<Allocated(Individual(Take(parent1.assignment, point)
                                   \o Drop(parent2.assignment, point)), fresh[1]),
           Allocated(Individual(Take(parent2.assignment, point)
                                   \o Drop(parent1.assignment, point)), fresh[2])>>

\* a variant of the draws of mutate whose resource index is drawn by
\* random.randint(0, len(self.resources))
MutateDrawsInclusive(num_tasks, num_resources, mutation_rate, g) ==
    IF FGreater(g, mutation_rate) THEN {[gate |-> g, genes |-> <<>>]}
    ELSE {[gate |-> g, genes |-> genes] :
             genes \in UNION {[1..k -> (0..(num_tasks - 1)) \X (0..num_resources)] :
                                 k \in 1..Max(1, num_tasks \div 4)}}

\* a variant of the draws of mutate whose loop can run once more
MutateDrawsOneMore(num_tasks, num_resources, mutation_rate, g) ==
    IF FGreater(g, mutation_rate) THEN {[gate |-> g, genes |-> <<>>]}
    ELSE {[gate |-> g, genes |-> genes] :
             genes \in UNION {[1..k -> (0..(num_tasks - 1)) \X (0..(num_resources - 1))] :
                                 k \in 1..(Max(1, num_tasks \div 4) + 1)}}

\* the draws one call of mutate can make, its random.random() being g: gate
\* is g, genes the (task_idx, resource) pairs of the loop, which runs
\* random.randint(1, max(1, len(tasks) // 4)) times
MutateDraws(num_tasks, num_resources, mutation_rate, g) ==
    IF FGreater(g, mutation_rate) THEN {[gate |-> g, genes |-> <<>>]}
    ELSE {[gate |-> g, genes |-> genes] :
             genes \in UNION {[1..k -> (0..(num_tasks - 1)) \X (0..(num_resources - 1))] :
                                 k \in 1..Max(1, num_tasks \div 4)}}

\* the assignment after the first k mutations of genes
RECURSIVE ApplyGenes(_, _, _)
ApplyGenes(assignment, genes, k) ==
    IF k = 0 THEN assignment
    ELSE [ApplyGenes(assignment, genes, k - 1) EXCEPT ![genes[k][1] + 1] = genes[k][2]]

\* mutate(individual) under the draws d: the individual afterwards
mutate(individual, mutation_rate, d) ==
    IF FGreater(d.gate, mutation_rate) THEN individual
    ELSE [individual EXCEPT !.assignment = ApplyGenes(@, d.genes, Len(d.genes))]

\* CulturalAlgorithm(tasks, resources, population_size, ...): the object
\* __init__ leaves; no argument is checked
CulturalAlgorithm(args) ==
    [tasks |-> args.tasks,
     resources |-> args.resources,
     population_size |-> args.population_size,
     mutation_rate |-> args.mutation_rate,
     crossover_rate |-> args.crossover_rate,
     elitism_count |-> args.elitism_count,
     objective |-> args.objective,
     max_generations |-> args.max_generations,
     acceptance_rate |-> args.acceptance_rate,
     influence_rate |-> args.influence_rate,
     population |-> <<>>,
     generation |-> 0,
     best_fitness_history |-> <<>>,
     avg_fitness_history |-> <<>>,
     best_individual |-> None,
     belief_space |-> BeliefSpace(Len(args.tasks), Len(args.resources))]

(***************************************************************************)
(* Bounds and input sets of the state machine.                             *)
(***************************************************************************)
\* largest population_size of a run
MaxPop == 2
\* largest max_generations of a run
MaxGen == 2
\* largest number of tasks of a run
MaxTasks == 2

\* the problem of the example in cultural_algorithm.py
ExampleTasks == <<Task(0, FromInt(120)), Task(1, FromInt(200)), Task(2, FromInt(150))>>

ExampleResources == <<Resource(0, FromInt(10), FromInt(5)), Resource(1, FromInt(20), FromInt(8))>>

\* the rates of the permitted configurations of the model: 0.0 and 0.5
RateValues == {F0, F05}

\* the acceptance rates of the permitted configurations of the model: 0.5 and 1.0
AcceptanceValues == {F05, F1}

Objectives == {"cost", "time", "weighted"}

\* the configurations the model draws from, within the bounds
BoundedArgs ==
    {[tasks |-> Take(ExampleTasks, nt),
      resources |-> Take(ExampleResources, nr),
      population_size |-> ps,
      mutation_rate |-> mr,
      crossover_rate |-> cr,
      elitism_count |-> ec,
      objective |-> ob,
      max_generations |-> mg,
      acceptance_rate |-> ar,
      influence_rate |-> ir] :
        nt \in 1..MaxTasks, nr \in 1..Len(ExampleResources), ps \in 1..MaxPop,
        mr \in RateValues, cr \in RateValues, ec \in 0..MaxPop,
        ob \in {"cost"}, mg \in 0..MaxGen, ar \in AcceptanceValues, ir \in RateValues}

\* 0.0 <= rate <= 1.0
IsProbability(rate) == FGeq(rate, F0) /\ FGeq(F1, rate)

\* the configuration is one section 6 of the specification permits
ValidConfig(c) ==
    /\ Len(c.tasks) >= 1
    /\ Len(c.resources) >= 1
    /\ c.population_size >= 1
    /\ IsProbability(c.mutation_rate)
    /\ IsProbability(c.crossover_rate)
    /\ IsProbability(c.influence_rate)
    /\ c.elitism_count >= 0
    /\ c.elitism_count <= c.population_size
    /\ c.objective \in Objectives
    /\ c.max_generations >= 0
    /\ FGreater(c.acceptance_rate, F0)
    /\ FGeq(F1, c.acceptance_rate)

\* configurations of the smallest population a tournament does not cover, so
\* that selection can return two different parents; elitism_count is the
\* default of __init__
TournamentArgs ==
    {[tasks |-> Take(ExampleTasks, 2),
      resources |-> ExampleResources,
      population_size |-> tournament_size + 1,
      mutation_rate |-> F0,
      crossover_rate |-> cr,
      elitism_count |-> 2,
      objective |-> "cost",
      max_generations |-> 1,
      acceptance_rate |-> F05,
      influence_rate |-> F0] : cr \in RateValues}

\* the permitted configurations of the model
PermittedArgs == {a \in BoundedArgs \cup TournamentArgs : ValidConfig(a)}

\* a permitted configuration, and the arguments that leave the permitted
\* range in one parameter
BaseArgs ==
    [tasks |-> Take(ExampleTasks, 2),
     resources |-> ExampleResources,
     population_size |-> 2,
     mutation_rate |-> F05,
     crossover_rate |-> F05,
     elitism_count |-> 1,
     objective |-> "cost",
     max_generations |-> 1,
     acceptance_rate |-> F05,
     influence_rate |-> F05]

F15 == FRound(3, 2, 0)

OutOfRangeArgs ==
    {[BaseArgs EXCEPT !.tasks = <<>>], [BaseArgs EXCEPT !.resources = <<>>],
     [BaseArgs EXCEPT !.objective = "energy"], [BaseArgs EXCEPT !.max_generations = -1]}
    \cup {[BaseArgs EXCEPT !.population_size = v] : v \in {0, -1}}
    \cup {[BaseArgs EXCEPT !.elitism_count = v] : v \in {-1, 3}}
    \cup {[BaseArgs EXCEPT !.mutation_rate = v] : v \in {FNeg(F05), F15}}
    \cup {[BaseArgs EXCEPT !.crossover_rate = v] : v \in {FNeg(F05), F15}}
    \cup {[BaseArgs EXCEPT !.influence_rate = v] : v \in {FNeg(F05), F15}}
    \cup {[BaseArgs EXCEPT !.acceptance_rate = v] : v \in {FNeg(F05), F0, F15}}

\* the arguments the constructor is called with
ConstructorArgs == {BaseArgs} \cup OutOfRangeArgs

(***************************************************************************)
(* Inputs of the calls of simulate and evaluate_fitness from outside a run *)
(* (main.py, simulation_generator.py).                                     *)
(***************************************************************************)
\* the tasks with the ids of the list ids
Retag(tasks, ids) == [k \in 1..Len(tasks) |-> Task(ids[k], tasks[k].length)]

\* task ids equal to the list positions, a permutation of them, and other keys
TaskIdLists == {<<0, 1, 2>>, <<2, 0, 1>>, <<7, 3, 5>>}

\* the float after 1.0
NextAfterOne == <<Pow2(MantBits - 1) + 1, -(MantBits - 1)>>

SimTaskLists ==
    {Retag(Take(ExampleTasks, n), ids) : n \in 0..Len(ExampleTasks), ids \in TaskIdLists}
    \cup {<<Task(0, F1)>>}

SimResourceLists ==
    {ExampleResources, Take(ExampleResources, 1),
     <<Resource(0, F1, F1), Resource(1, F1, NextAfterOne)>>}

\* assignments of any length up to one more than the task count, entries from
\* one below -len(resources) to len(resources)
SimAssignments(tasks, resources) ==
    UNION {[1..n -> (-(Len(resources) + 1))..Len(resources)] : n \in 0..(Len(tasks) + 1)}

\* length equals the task count and every entry is a resource index
WellFormed(assignment, tasks, resources) ==
    /\ Len(assignment) = Len(tasks)
    /\ \A t \in 1..Len(assignment) :
           assignment[t] >= 0 /\ assignment[t] <= Len(resources) - 1

SimulateCalls ==
    UNION {{[op |-> "simulate", done |-> FALSE, tasks |-> ts, resources |-> rs,
             assignment |-> a, result |-> None] : a \in SimAssignments(ts, rs)} :
           ts \in SimTaskLists, rs \in SimResourceLists}

FitnessCalls ==
    UNION {{[op |-> "evaluate_fitness", done |-> FALSE, tasks |-> ts, resources |-> rs,
             objective |-> ob, individuals |-> <<Individual(a), Individual(b)>>] :
               a \in [1..Len(ts) -> 0..(Len(rs) - 1)],
               b \in [1..Len(ts) -> 0..(Len(rs) - 1)],
               ob \in Objectives \cup {"energy"}} :
           ts \in SimTaskLists, rs \in SimResourceLists}

VARIABLES
    pc,              \* where the caller of the optimizer stands
    ca,              \* the CulturalAlgorithm object, None before construction
    run_generation,  \* the loop variable of run
    new_population,  \* evolve's list under construction
    parent1,         \* evolve's locals
    parent2,
    child1,
    child2,
    raised,          \* the exception that left the call, "" when none did
    returned,        \* what run returned
    call             \* a call of simulate or evaluate_fitness from outside a run

vars == <<pc, ca, run_generation, new_population, parent1, parent2, child1, child2,
          raised, returned, call>>

locals == <<new_population, parent1, parent2, child1, child2>>

NoCall == [op |-> "none"]

\* a freshly constructed optimizer
Init ==
    /\ pc = "constructed"
    /\ ca \in {CulturalAlgorithm(args) : args \in PermittedArgs}
    /\ run_generation = 0
    /\ new_population = <<>>
    /\ parent1 = None
    /\ parent2 = None
    /\ child1 = None
    /\ child2 = None
    /\ raised = ""
    /\ returned = None
    /\ call = NoCall

\* no optimizer was constructed yet
InitCtor ==
    /\ pc = "unconstructed"
    /\ ca = None
    /\ run_generation = 0
    /\ new_population = <<>>
    /\ parent1 = None
    /\ parent2 = None
    /\ child1 = None
    /\ child2 = None
    /\ raised = ""
    /\ returned = None
    /\ call = NoCall

\* ca = CulturalAlgorithm(...): __init__ stores its arguments and raises nothing
Construct ==
    /\ pc = "unconstructed"
    /\ \E args \in ConstructorArgs : ca' = CulturalAlgorithm(args)
    /\ pc' = "constructed"
    /\ UNCHANGED <<run_generation, locals, raised, returned, call>>

\* a call of simulate or of evaluate_fitness is about to be made
InitSim ==
    /\ pc = "idle"
    /\ ca = None
    /\ run_generation = 0
    /\ new_population = <<>>
    /\ parent1 = None
    /\ parent2 = None
    /\ child1 = None
    /\ child2 = None
    /\ raised = ""
    /\ returned = None
    /\ call \in SimulateCalls \cup FitnessCalls

\* result = simulate(tasks, resources, assignment)
Simulate ==
    /\ call.op = "simulate"
    /\ ~call.done
    /\ call' = [call EXCEPT
                   !.done = TRUE,
                   !.result = simulate(call.tasks, call.resources, call.assignment)]
    /\ UNCHANGED <<pc, ca, run_generation, locals, raised, returned>>

\* evaluate_fitness(objective) on each of two individuals
EvaluateFitness ==
    /\ call.op = "evaluate_fitness"
    /\ ~call.done
    /\ call' = [call EXCEPT
                   !.done = TRUE,
                   !.individuals =
                       [k \in 1..2 |-> evaluate_fitness(call.individuals[k], call.tasks,
                                                        call.resources, call.objective)]]
    /\ UNCHANGED <<pc, ca, run_generation, locals, raised, returned>>

\* an exception leaves the running call
Raises(kind) ==
    /\ pc' = "raised"
    /\ raised' = kind

NumTasks == Len(ca.tasks)

NumResources == Len(ca.resources)

\* int(self.population_size * self.acceptance_rate)
AcceptedCount(population_size, acceptance_rate) ==
    FTrunc(FMul(FromInt(population_size), acceptance_rate))

\* the elite subset initialize_population hands to update
InitialAccepted(population, population_size, acceptance_rate) ==
    SliceTo(population, AcceptedCount(population_size, acceptance_rate))

\* the individuals of a population with their list objects named by
\* position: 1..len(population)
Located(population) ==
    [k \in 1..Len(population) |-> Allocated(population[k], k)]

\* the name of the list object of the driver's copy of the best individual
BestBuffer(population) == Len(population) + 1

\* the optimizer after initialize_population sorted the evaluated population
Initialized(self, sorted) ==
    [self EXCEPT
        !.population = sorted,
        !.best_individual = deepcopy(sorted[1], BestBuffer(sorted)),
        !.belief_space =
            update(@, sorted,
                   InitialAccepted(sorted, self.population_size, self.acceptance_rate))]

\* the optimizer after initialize_population drew the assignments
initialize_population(self, assignments) ==
    Initialized(self,
        Located(SortByFitness([k \in 1..self.population_size |->
            evaluate_fitness(Individual(assignments[k]), self.tasks, self.resources,
                             self.objective)])))

\* run: self.initialize_population()
InitializePopulation ==
    /\ pc = "constructed"
    /\ run_generation' = 0
    /\ UNCHANGED <<locals, returned, call>>
    /\ IF ca.population_size >= 1 /\ NumTasks >= 1 /\ NumResources <= 0
       THEN \* random.randint(0, -1)
            /\ Raises("ValueError")
            /\ ca' = [ca EXCEPT !.population = <<>>]
       ELSE IF ca.population_size >= 1 /\ ca.objective \notin {"cost", "time", "weighted"}
       THEN /\ Raises("ValueError")
            /\ ca' = [ca EXCEPT !.population = <<>>]
       ELSE IF ca.population_size <= 0
       THEN \* self.population[0] of an empty list
            /\ Raises("IndexError")
            /\ ca' = [ca EXCEPT !.population = <<>>]
       ELSE /\ \E assignments \in [1..ca.population_size ->
                                      [1..NumTasks -> 0..(NumResources - 1)]] :
                   ca' = initialize_population(ca, assignments)
            /\ pc' = "run_loop"
            /\ UNCHANGED raised

\* run: the for loop is over
RunReturn ==
    /\ pc = "run_loop"
    /\ run_generation >= ca.max_generations
    /\ pc' = "returned"
    /\ returned' = ca.best_individual
    /\ UNCHANGED <<ca, run_generation, locals, raised, call>>

\* the name of the list object evolve allocates when new_population holds
\* held individuals: the names after those of the population and the two
\* copies of the best individual
FreshBuffer(population, held) == Len(population) + 2 + held + 1

\* a variant of the elitism loop that carries nobody over
ElitesDropped(population, elitism_count) == <<>>

\* a variant of the elitism loop that copies from the end of the sorted
\* population
ElitesFromEnd(population, elitism_count) ==
    [i \in 1..Min(Len(population), Max(0, elitism_count)) |->
        deepcopy(population[Len(population) - i + 1], FreshBuffer(population, i - 1))]

\* the copies the elitism loop puts in new_population: population[0] to
\* population[elitism_count - 1]
Elites(population, elitism_count) ==
    [i \in 1..Min(Len(population), Max(0, elitism_count)) |->
        deepcopy(population[i], FreshBuffer(population, i - 1))]

\* evolve: the elitism loop
EvolveElitism ==
    /\ pc = "run_loop"
    /\ run_generation < ca.max_generations
    /\ UNCHANGED <<ca, run_generation, parent1, parent2, child1, child2, returned, call>>
    /\ IF ca.elitism_count > Len(ca.population)
       THEN \* self.population[i] past the end
            /\ Raises("IndexError")
            /\ new_population' = ca.population
       ELSE /\ new_population' = Elites(ca.population, ca.elitism_count)
            /\ pc' = "evolve_loop"
            /\ UNCHANGED raised

\* evolve: parent1, parent2 = self.selection()
Selection ==
    /\ pc = "evolve_loop"
    /\ Len(new_population) < ca.population_size
    /\ \E tournament1, tournament2 \in Samples(Len(ca.population),
                                                Min(tournament_size, Len(ca.population))) :
           LET parents == selection(ca.population, tournament1, tournament2)
           IN  /\ parent1' = parents[1]
               /\ parent2' = parents[2]
    /\ pc' = "selected"
    /\ UNCHANGED <<ca, run_generation, new_population, child1, child2, raised, returned, call>>

\* evolve: child1, child2 = self.crossover(parent1, parent2)
Crossover ==
    /\ pc = "selected"
    /\ UNCHANGED <<ca, run_generation, new_population, parent1, parent2, returned, call>>
    /\ \E u \in RandomValues :
           IF ~FGreater(u, ca.crossover_rate) /\ NumTasks - 1 < 1
           THEN \* random.randint(1, 0)
                /\ Raises("ValueError")
                /\ UNCHANGED <<child1, child2>>
           ELSE \E point \in IF FGreater(u, ca.crossover_rate) THEN {1} ELSE 1..(NumTasks - 1) :
                    LET children == crossover(parent1, parent2, ca.crossover_rate, u, point,
                                              <<FreshBuffer(ca.population,
                                                            Len(new_population)),
                                                FreshBuffer(ca.population,
                                                            Len(new_population) + 1)>>)
                    IN  /\ child1' = children[1]
                        /\ child2' = children[2]
                        /\ pc' = "crossed"
                        /\ UNCHANGED raised

\* a call self.belief_space.influence(child, self.influence_rate) of evolve;
\* random.sample raises when asked for more positions than there are
InfluenceCall(child, influenced, next_pc) ==
    \E g, u \in RandomValues :
        IF /\ ~FGreater(g, ca.influence_rate)
           /\ SituationalRuns(ca.belief_space, u)
           /\ Len(child.assignment) = 0
        THEN /\ Raises("ValueError")
             /\ influenced = child
        ELSE /\ \E d \in InfluenceDraws(ca.belief_space, Len(child.assignment),
                                       ca.influence_rate, g, u) :
                    influenced = influence(ca.belief_space, child, ca.influence_rate, d)
             /\ pc' = next_pc
             /\ UNCHANGED raised

\* the optimizer after a write into the list object buffer
WrittenOptimizer(self, buffer, assignment) ==
    [self EXCEPT
        !.population = WrittenAll(@, buffer, assignment),
        !.best_individual = Written(@, buffer, assignment),
        !.belief_space.best_individual = Written(@, buffer, assignment)]

\* what a write of influence or mutate into a child's list leaves of the
\* other objects evolve holds: those of another list are unchanged
WriteThrough(buffer, assignment, sibling, sibling_after) ==
    /\ ca' = WrittenOptimizer(ca, buffer, assignment)
    /\ new_population' = WrittenAll(new_population, buffer, assignment)
    /\ parent1' = Written(parent1, buffer, assignment)
    /\ parent2' = Written(parent2, buffer, assignment)
    /\ sibling_after = Written(sibling, buffer, assignment)

\* evolve: self.belief_space.influence(child1, self.influence_rate)
Influence1 ==
    /\ pc = "crossed"
    /\ InfluenceCall(child1, child1', "influenced1")
    /\ WriteThrough(child1.buffer, child1'.assignment, child2, child2')
    /\ UNCHANGED <<run_generation, returned, call>>

\* evolve: self.belief_space.influence(child2, self.influence_rate)
Influence2 ==
    /\ pc = "influenced1"
    /\ InfluenceCall(child2, child2', "influenced2")
    /\ WriteThrough(child2.buffer, child2'.assignment, child1, child1')
    /\ UNCHANGED <<run_generation, returned, call>>

\* a call self.mutate(child) of evolve; random.randint raises on an empty range
MutateCall(child, mutated, next_pc) ==
    \E g \in RandomValues :
        IF ~FGreater(g, ca.mutation_rate) /\ (NumTasks <= 0 \/ NumResources <= 0)
        THEN /\ Raises("ValueError")
             /\ mutated = child
        ELSE /\ \E d \in MutateDraws(NumTasks, NumResources, ca.mutation_rate, g) :
                    mutated = mutate(child, ca.mutation_rate, d)
             /\ pc' = next_pc
             /\ UNCHANGED raised

\* evolve: self.mutate(child1)
Mutate1 ==
    /\ pc = "influenced2"
    /\ MutateCall(child1, child1', "mutated1")
    /\ WriteThrough(child1.buffer, child1'.assignment, child2, child2')
    /\ UNCHANGED <<run_generation, returned, call>>

\* evolve: self.mutate(child2)
Mutate2 ==
    /\ pc = "mutated1"
    /\ MutateCall(child2, child2', "mutated2")
    /\ WriteThrough(child2.buffer, child2'.assignment, child1, child1')
    /\ UNCHANGED <<run_generation, returned, call>>

\* new_population after the two appends of the loop body
AppendChildren(population, first, second, population_size) ==
    IF Len(population) + 1 < population_size
    THEN population \o <<first, second>>
    ELSE Append(population, first)

\* evolve once the two calls of evaluate_fitness gave first and second: an
\* exception of simulate leaves evolve, else both children are appended, child2
\* only if a slot is left
ChildrenEvaluated(first, second) ==
    IF IsError(first)
    THEN /\ Raises(first.error)
         /\ UNCHANGED <<child1, child2, new_population>>
    ELSE IF IsError(second)
    THEN /\ Raises(second.error)
         /\ child1' = first
         /\ UNCHANGED <<child2, new_population>>
    ELSE /\ child1' = first
         /\ child2' = second
         /\ new_population' = AppendChildren(new_population, first, second,
                                             ca.population_size)
         /\ pc' = "evolve_loop"
         /\ UNCHANGED raised

\* evolve: child1.evaluate_fitness, child2.evaluate_fitness and the appends
EvaluateChildren ==
    /\ pc = "mutated2"
    /\ ChildrenEvaluated(evaluate_fitness(child1, ca.tasks, ca.resources, ca.objective),
                         evaluate_fitness(child2, ca.tasks, ca.resources, ca.objective))
    /\ UNCHANGED <<ca, run_generation, parent1, parent2, returned, call>>

\* max(1, int(self.population_size * self.acceptance_rate))
NumAccepted(population_size, acceptance_rate) ==
    Max(1, AcceptedCount(population_size, acceptance_rate))

\* a variant of the best-ever update that always takes the population's best
UpdateBestUnconditional(best_individual, population) ==
    deepcopy(population[1], BestBuffer(population))

\* the best-ever individual after evolve compared the sorted population with it
UpdateBest(best_individual, population) ==
    IF FGreater(population[1].fitness, best_individual.fitness)
    THEN deepcopy(population[1], BestBuffer(population))
    ELSE best_individual

\* a variant of the end of evolve that records the fitness of the current
\* population's best
RecordedCurrentBest(self, population, best) ==
    [self EXCEPT
        !.population = population,
        !.best_individual = best,
        !.belief_space =
            update(@, population,
                   SliceTo(population,
                           NumAccepted(self.population_size, self.acceptance_rate))),
        !.best_fitness_history = Append(@, population[1].fitness),
        !.avg_fitness_history = Append(@, Mean(Fitnesses(population))),
        !.generation = @ + 1]

\* the optimizer at the end of evolve, best being the best-ever individual
Recorded(self, population, best) ==
    [self EXCEPT
        !.population = population,
        !.best_individual = best,
        !.belief_space =
            update(@, population,
                   SliceTo(population,
                           NumAccepted(self.population_size, self.acceptance_rate))),
        !.best_fitness_history = Append(@, best.fitness),
        !.avg_fitness_history = Append(@, Mean(Fitnesses(population))),
        !.generation = @ + 1]

\* the optimizer after evolve replaced the population by the sorted one
Replaced(self, population) ==
    Recorded(self, population, UpdateBest(self.best_individual, population))

\* a variant of the end of evolve that does not sort the new population
evolve_finish_unsorted(self, children) ==
    Replaced(self, Located(SliceTo(children, self.population_size)))

\* evolve from "# Update population" to its end
evolve_finish(self, children) ==
    Replaced(self, Located(SortByFitness(SliceTo(children, self.population_size))))

\* evolve from "# Update population" to its end, and the next turn of run's loop
EvolveFinish ==
    /\ pc = "evolve_loop"
    /\ Len(new_population) >= ca.population_size
    /\ ca' = evolve_finish(ca, new_population)
    /\ run_generation' = run_generation + 1
    /\ pc' = "run_loop"
    /\ UNCHANGED <<locals, raised, returned, call>>

Next ==
    \/ InitializePopulation
    \/ RunReturn
    \/ EvolveElitism
    \/ Selection
    \/ Crossover
    \/ Influence1
    \/ Influence2
    \/ Mutate1
    \/ Mutate2
    \/ EvaluateChildren
    \/ EvolveFinish

Spec == Init /\ [][Next]_vars

\* the constructor called with permitted and with out-of-range arguments, and
\* run called on the object it leaves
NextCtor == Construct \/ Next

SpecCtor == InitCtor /\ [][NextCtor]_vars

\* calls of simulate and evaluate_fitness on drawn inputs
NextSim == Simulate \/ EvaluateFitness

SpecSim == InitSim /\ [][NextSim]_vars
\* largest number of calls of run on one optimizer
MaxRuns == 2

\* an optimizer of the configuration BaseArgs on which run is called for the
\* first time
InitRerun ==
    /\ pc = "constructed"
    /\ ca = CulturalAlgorithm(BaseArgs)
    /\ run_generation = 0
    /\ new_population = <<>>
    /\ parent1 = None
    /\ parent2 = None
    /\ child1 = None
    /\ child2 = None
    /\ raised = ""
    /\ returned = None
    /\ call = [op |-> "run", calls |-> 1]

\* run returned and the caller calls ca.run() again: the object is as the
\* earlier call left it, and the locals of the earlier call are gone
RunAgain ==
    /\ pc = "returned"
    /\ call.op = "run"
    /\ call.calls < MaxRuns
    /\ call' = [call EXCEPT !.calls = @ + 1]
    /\ pc' = "constructed"
    /\ new_population' = <<>>
    /\ parent1' = None
    /\ parent2' = None
    /\ child1' = None
    /\ child2' = None
    /\ UNCHANGED <<ca, run_generation, raised, returned>>

NextRerun == Next \/ RunAgain

SpecRerun == InitRerun /\ [][NextRerun]_vars

(***************************************************************************)
(* Calls of the operators of BeliefSpace and CulturalAlgorithm on drawn    *)
(* inputs: one call of update, influence, mutate, selection or crossover.  *)
(***************************************************************************)
\* largest population of a drawn call of update
MaxElite == 4

\* the evaluated and sorted population initialize_population builds from the
\* assignments
EvaluatedPopulation(assignments, tasks, resources) ==
    Located(SortByFitness([k \in 1..Len(assignments) |->
        evaluate_fitness(Individual(assignments[k]), tasks, resources, "cost")]))

\* belief_space.update(population, population[:k]) on a new belief space
UpdateCallOn(population, num_tasks, num_resources, k) ==
    [op |-> "update", done |-> FALSE, bs |-> BeliefSpace(num_tasks, num_resources),
     population |-> population, accepted |-> SliceTo(population, k)]

UpdateCalls ==
    UNION {{UpdateCallOn(EvaluatedPopulation(assignments, Take(ExampleTasks, MaxTasks),
                                             ExampleResources),
                         MaxTasks, Len(ExampleResources), k) :
               assignments \in [1..n -> [1..MaxTasks -> 0..(Len(ExampleResources) - 1)]],
               k \in 0..n} : n \in 1..MaxElite}

\* largest number of genes of a drawn call of influence
MaxGenes == 6

\* n tasks with the lengths of the example's tasks
CallTasks(n) ==
    [k \in 1..n |-> Task(k - 1, ExampleTasks[((k - 1) % Len(ExampleTasks)) + 1].length)]

\* the assignment of n genes that puts every task on resource r
Uniform(n, r) == [t \in 1..n |-> r]

\* the assignment of n genes that alternates between the resources 1 and 0
Alternating(n) == [t \in 1..n |-> t % 2]

\* the populations whose update gives the belief spaces of the drawn calls of
\* influence
CallElites(n) ==
    {<<Uniform(n, 1), Uniform(n, 0), Uniform(n, 0), Uniform(n, 0)>>,
     <<Uniform(n, 1), Alternating(n)>>,
     <<Uniform(n, 0)>>}

\* the belief space after update(population, population)
UpdatedOn(population, num_tasks, num_resources) ==
    update(BeliefSpace(num_tasks, num_resources), population, population)

\* a new belief space for n tasks, and those an update left
CallBeliefs(n) ==
    {BeliefSpace(n, Len(ExampleResources))}
    \cup {UpdatedOn(EvaluatedPopulation(assignments, CallTasks(n), ExampleResources),
                    n, Len(ExampleResources)) : assignments \in CallElites(n)}

\* belief_space.influence(Individual(assignment), influence_rate); gate and
\* situational are the first two draws of the call, injected the assignment
\* after its situational part
InfluenceCalls ==
    UNION {{[op |-> "influence", done |-> FALSE, bs |-> bs, influence_rate |-> rate,
             individual |-> Individual(assignment), before |-> assignment,
             gate |-> F0, situational |-> F0, injected |-> assignment] :
               bs \in CallBeliefs(n), rate \in RateValues,
               assignment \in {Alternating(n), Uniform(n, 0)}} :
           n \in {MaxTasks, MaxGenes}}

\* largest number of tasks of a drawn call of mutate
MaxMutated == 8

\* self.mutate(Individual(assignment)) of an optimizer with n tasks, the
\* example's resources and the mutation rate; gate is the first draw of the
\* call and genes the (task_idx, resource) pairs of its loop
MutateCalls ==
    UNION {{[op |-> "mutate", done |-> FALSE, num_tasks |-> n,
             num_resources |-> Len(ExampleResources), mutation_rate |-> rate,
             individual |-> Individual(assignment), before |-> assignment,
             gate |-> F0, genes |-> <<>>] :
               rate \in RateValues, assignment \in {Alternating(n), Uniform(n, 0)}} :
           n \in {MaxTasks, MaxMutated}}

\* largest population of a drawn call of selection
MaxSelect == 5

\* lists of assignments of two genes: one of four different costs with the
\* costliest twice, one of two costs
SelectionAssignments ==
    {<<Uniform(2, 1), <<1, 0>>, <<0, 1>>, Uniform(2, 0), Uniform(2, 0)>>
         \o [k \in 1..(MaxSelect - 5) |-> Uniform(2, 0)],
     [k \in 1..MaxSelect |-> Uniform(2, k % 2)]}

\* self.selection() of an optimizer whose population are the first n of the
\* assignments, evaluated and sorted
SelectionCalls ==
    {[op |-> "selection", done |-> FALSE,
      population |-> EvaluatedPopulation(Take(assignments, n), Take(ExampleTasks, 2),
                                         ExampleResources),
      before |-> EvaluatedPopulation(Take(assignments, n), Take(ExampleTasks, 2),
                                     ExampleResources),
      tournament1 |-> <<>>, tournament2 |-> <<>>, parents |-> <<>>] :
        assignments \in SelectionAssignments, n \in 1..MaxSelect}

\* largest number of tasks of a drawn call of crossover
MaxCut == 3

\* self.crossover(parent1, parent2) of an optimizer with n tasks on two parents
\* of the population, which can be the same object; u is the first draw of the
\* call and point its cut point, 0 when none was drawn
CrossoverCalls ==
    UNION {{[op |-> "crossover", done |-> FALSE, num_tasks |-> n, crossover_rate |-> rate,
             parent1 |-> Allocated(Individual(a), 1),
             parent2 |-> IF a = b THEN Allocated(Individual(a), k) ELSE Allocated(Individual(b), 2),
             u |-> F0, point |-> 0, children |-> <<>>] :
               rate \in RateValues, k \in 1..2,
               a \in [1..n -> 0..(Len(ExampleResources) - 1)],
               b \in [1..n -> 0..(Len(ExampleResources) - 1)]} :
           n \in 1..MaxCut}

\* an operator is about to be called
InitCalls ==
    /\ pc = "idle"
    /\ ca = None
    /\ run_generation = 0
    /\ new_population = <<>>
    /\ parent1 = None
    /\ parent2 = None
    /\ child1 = None
    /\ child2 = None
    /\ raised = ""
    /\ returned = None
    /\ call \in UpdateCalls \cup InfluenceCalls \cup MutateCalls
                \cup SelectionCalls \cup CrossoverCalls

\* belief_space.update(population, accepted)
CallUpdate ==
    /\ call.op = "update"
    /\ ~call.done
    /\ call' = [call EXCEPT !.done = TRUE,
                            !.bs = update(call.bs, call.population, call.accepted)]
    /\ UNCHANGED <<pc, ca, run_generation, locals, raised, returned>>

\* the call of influence after it returned under the draws d
Influenced(c, d) ==
    [c EXCEPT !.done = TRUE,
              !.gate = d.gate,
              !.situational = d.situational,
              !.injected = IF FGreater(d.gate, c.influence_rate) THEN @
                           ELSE SituationalInfluence(c.bs, @, d),
              !.individual = influence(c.bs, @, c.influence_rate, d)]

\* belief_space.influence(individual, influence_rate)
CallInfluence ==
    /\ call.op = "influence"
    /\ ~call.done
    /\ \E g, u \in RandomValues :
           \E d \in InfluenceDraws(call.bs, Len(call.before), call.influence_rate, g, u) :
               call' = Influenced(call, d)
    /\ UNCHANGED <<pc, ca, run_generation, locals, raised, returned>>

\* the call of mutate after it returned under the draws d
Mutated(c, d) ==
    [c EXCEPT !.done = TRUE,
              !.gate = d.gate,
              !.genes = d.genes,
              !.individual = mutate(@, c.mutation_rate, d)]

\* self.mutate(individual)
CallMutate ==
    /\ call.op = "mutate"
    /\ ~call.done
    /\ \E g \in RandomValues :
           \E d \in MutateDraws(call.num_tasks, call.num_resources, call.mutation_rate, g) :
               call' = Mutated(call, d)
    /\ UNCHANGED <<pc, ca, run_generation, locals, raised, returned>>

\* parent1, parent2 = self.selection(); the tournaments are the two samples
CallSelection ==
    /\ call.op = "selection"
    /\ ~call.done
    /\ \E tournament1, tournament2 \in Samples(Len(call.population),
                                                Min(tournament_size, Len(call.population))) :
           call' = [call EXCEPT !.done = TRUE,
                                !.tournament1 = tournament1,
                                !.tournament2 = tournament2,
                                !.parents = selection(call.population, tournament1,
                                                      tournament2)]
    /\ UNCHANGED <<pc, ca, run_generation, locals, raised, returned>>

\* child1, child2 = self.crossover(parent1, parent2); random.randint(1, 0)
\* raises
CallCrossover ==
    /\ call.op = "crossover"
    /\ ~call.done
    /\ UNCHANGED <<ca, run_generation, locals, returned>>
    /\ \E u \in RandomValues :
           IF ~FGreater(u, call.crossover_rate) /\ call.num_tasks - 1 < 1
           THEN /\ Raises("ValueError")
                /\ call' = [call EXCEPT !.done = TRUE, !.u = u]
           ELSE /\ \E point \in IF FGreater(u, call.crossover_rate) THEN {0}
                                ELSE 1..(call.num_tasks - 1) :
                       call' = [call EXCEPT
                                   !.done = TRUE, !.u = u, !.point = point,
                                   !.children = crossover(call.parent1, call.parent2,
                                                          call.crossover_rate, u, point,
                                                          <<3, 4>>)]
                /\ UNCHANGED <<pc, raised>>

NextCalls == CallUpdate \/ CallInfluence \/ CallMutate \/ CallSelection \/ CallCrossover

SpecCalls == InitCalls /\ [][NextCalls]_vars
(***************************************************************************)
(* Properties of a run.                                                    *)
(***************************************************************************)
\* the individual, where there is one, maps every task of the run to one of
\* its resources
ValidIndividual(individual) ==
    individual = None \/ WellFormed(individual.assignment, ca.tasks, ca.resources)

\* every individual of the list is valid
AllValid(individuals) ==
    \A k \in 1..Len(individuals) : ValidIndividual(individuals[k])

\* C1: every individual the optimizer holds (the population, the list evolve
\* builds, the parents and children at hand, the best-ever individual of the
\* driver and of the belief space, and what run returned) has an assignment
\* whose length is the task count and whose entries are resource indices in
\* [0, resource_count - 1].
C1_AssignmentsWellFormed ==
    /\ AllValid(ca.population)
    /\ AllValid(new_population)
    /\ AllValid(<<parent1, parent2, child1, child2, returned>>)
    /\ ValidIndividual(ca.best_individual)
    /\ ValidIndividual(ca.belief_space.best_individual)

\* two different parents whose children, after crossover, influence and
\* mutation acted on them, differ from both
C1_ChildDiffersFromParents ==
    /\ pc = "mutated2"
    /\ parent1.assignment # parent2.assignment
    /\ child1.assignment \notin {parent1.assignment, parent2.assignment}
    /\ child2.assignment \notin {parent1.assignment, parent2.assignment}

\* the step is the end of an evolve call
EvolveEnds == pc = "evolve_loop" /\ pc' = "run_loop"

\* C2: across every evolve step, the best-ever fitness recorded by the driver
\* and the best-ever fitness recorded by the belief space do not decrease.
C2_BestEverNeverDecreases ==
    [][EvolveEnds =>
          /\ FGeq(ca'.best_individual.fitness, ca.best_individual.fitness)
          /\ ~PyGreater(ca.belief_space.best_fitness, ca'.belief_space.best_fitness)]_vars

\* the second evolve step raised the best-ever fitness of the driver and of
\* the belief space
C2_BestEverImproved ==
    /\ pc = "run_loop"
    /\ Len(ca.best_fitness_history) = 2
    /\ FGreater(ca.best_fitness_history[2], ca.best_fitness_history[1])
    /\ ca.belief_space.best_fitness = ca.best_fitness_history[2]

\* the highest fitness among the individuals of a non-empty population
HighestFitness(population) ==
    CHOOSE f \in {population[k].fitness : k \in 1..Len(population)} :
        \A k \in 1..Len(population) : FGeq(f, population[k].fitness)

\* C3 as stated: across every evolve step, elitism_count = 0 included, the
\* highest fitness in the population does not decrease.
C3_PopulationBestNeverDecreases ==
    [][EvolveEnds =>
          FGeq(HighestFitness(ca'.population), HighestFitness(ca.population))]_vars

\* C3: across every evolve step of a run with elitism_count >= 1, the highest
\* fitness in the population does not decrease.
C3_PopulationBestKeptByElitism ==
    [][(EvolveEnds /\ ca.elitism_count >= 1) =>
          FGeq(HighestFitness(ca'.population), HighestFitness(ca.population))]_vars

\* an evolve step with elitism ended whose children were all worse than the
\* elite it carried over
C3_EliteOutlivesWorseChildren ==
    /\ pc = "run_loop"
    /\ ca.generation >= 1
    /\ ca.elitism_count = 1
    /\ ca.population_size = 2
    /\ FLess(child1.fitness, ca.population[1].fitness)
    /\ ca.population[2].assignment = child1.assignment
    /\ ca.population[2].fitness = child1.fitness

\* C4: no exception leaves run, and when run returns, evolve ran exactly
\* max_generations times, run_generation shows the budget is exhausted, and the
\* value returned is the best-ever individual; with max_generations = 0 that is
\* the best of the initial population and no history entry was appended.
C4_RunExhaustsBudget ==
    /\ pc # "raised"
    /\ pc = "returned" =>
          /\ ca.generation = ca.max_generations
          /\ run_generation = ca.max_generations
          /\ Len(ca.best_fitness_history) = ca.max_generations
          /\ Len(ca.avg_fitness_history) = ca.max_generations
          /\ returned = ca.best_individual
          /\ ca.max_generations = 0 =>
                 /\ returned.assignment = ca.population[1].assignment
                 /\ returned.fitness = ca.population[1].fitness

(***************************************************************************)
(* Properties of construction.                                             *)
(***************************************************************************)
\* C5: an optimizer exists only for a permitted configuration: construction
\* with an out-of-range parameter fails and leaves no object to run.
C5_ConstructionRejectsOutOfRange == ca # None => ValidConfig(ca)

(***************************************************************************)
(* Properties of simulate and evaluate_fitness.                            *)
(***************************************************************************)
\* a call of simulate returned or raised
SimulateDone == call.op = "simulate" /\ call.done

\* C6: simulate called with an assignment whose length is not the task count,
\* or with an entry outside 0..len(resources)-1, ends in an error and returns
\* no (total_time, total_cost) pair.
C6_SimulateRejectsMalformed ==
    (SimulateDone /\ ~WellFormed(call.assignment, call.tasks, call.resources))
        => IsError(call.result)

\* tasks[i].length / resources[assignment[i]].speed for the list position i
Elapsed(tasks, resources, assignment, i) ==
    FDiv(tasks[i].length, resources[assignment[i] + 1].speed)

\* the sum of the elapsed times of the first n list positions
RECURSIVE SumElapsed(_, _, _, _)
SumElapsed(tasks, resources, assignment, n) ==
    IF n = 0 THEN F0
    ELSE FAdd(SumElapsed(tasks, resources, assignment, n - 1),
              Elapsed(tasks, resources, assignment, n))

\* the sum of elapsed time times cost rate of the first n list positions
RECURSIVE SumCost(_, _, _, _)
SumCost(tasks, resources, assignment, n) ==
    IF n = 0 THEN F0
    ELSE FAdd(SumCost(tasks, resources, assignment, n - 1),
              FMul(Elapsed(tasks, resources, assignment, n),
                   resources[assignment[n] + 1].cost))

\* the call is the scenario of lengths 120, 200, 150 on the resources
\* (10, 5) and (20, 8) under the assignment [0, 1, 0], with any task ids
IsScenario ==
    /\ [k \in 1..Len(call.tasks) |-> call.tasks[k].length]
           = <<FromInt(120), FromInt(200), FromInt(150)>>
    /\ call.resources = ExampleResources
    /\ call.assignment = <<0, 1, 0>>

\* what C7 says of a state: the result of a well-formed call
SimulateSums ==
    (SimulateDone /\ WellFormed(call.assignment, call.tasks, call.resources)) =>
        /\ ~IsError(call.result)
        /\ call.result.total_time
               = SumElapsed(call.tasks, call.resources, call.assignment, Len(call.tasks))
        /\ call.result.total_cost
               = SumCost(call.tasks, call.resources, call.assignment, Len(call.tasks))
        /\ IsScenario => /\ call.result.total_time = FromInt(37)
                         /\ call.result.total_cost = FromInt(215)

\* what C7 says of a step: the arguments are left as they were
SimulateFrame ==
    call.op = "simulate" =>
        /\ call'.tasks = call.tasks
        /\ call'.resources = call.resources
        /\ call'.assignment = call.assignment

\* C7: for a well-formed assignment simulate returns the sums, over the list
\* positions i, of length / speed and of that elapsed time times the cost rate
\* of resources[assignment[i]], whatever the task ids; the scenario gives 37 and
\* 215; and the call leaves tasks, resources and assignment unchanged.
C7_SimulateReturnsSums == [](SimulateSums) /\ [][SimulateFrame]_vars

\* the scenario evaluated on tasks whose ids are not their list positions
C7_ScenarioWithOtherIds ==
    /\ SimulateDone
    /\ IsScenario
    /\ [k \in 1..Len(call.tasks) |-> call.tasks[k].id] = <<2, 0, 1>>
    /\ call.result.total_time = FromInt(37)

\* a call of evaluate_fitness with a known objective returned
FitnessDone == call.op = "evaluate_fitness" /\ call.done /\ call.objective \in Objectives

\* the fitness of the k-th individual of the call
FitnessOf(k) == call.individuals[k].fitness

\* total_time and total_cost of the k-th individual of the call
TimeOf(k) == call.individuals[k].fitness_score[1]

CostOf(k) == call.individuals[k].fitness_score[2]

\* 2^(-shift) * x as an integer, for a float x whose exponent is >= shift
Scaled(x, shift) == x[1] * Pow2(x[2] - shift)

\* the smallest exponent among the raw metrics of the call
MetricShift == Min(Min(TimeOf(1)[2], CostOf(1)[2]), Min(TimeOf(2)[2], CostOf(2)[2]))

\* the k-th individual's 0.4 * total_time / 1000 + 0.6 * total_cost / 10000 in
\* exact arithmetic, times 50000 * 2^(-MetricShift)
WeightedMetric(k) == 20 * Scaled(TimeOf(k), MetricShift) + 3 * Scaled(CostOf(k), MetricShift)

\* the objective's raw metric of the first individual is smaller than that of
\* the second
MetricSmaller(first, second) ==
    IF call.objective = "cost" THEN FLess(CostOf(first), CostOf(second))
    ELSE IF call.objective = "time" THEN FLess(TimeOf(first), TimeOf(second))
    ELSE WeightedMetric(first) < WeightedMetric(second)

\* C8 as stated: the fitness is strictly positive, and fitness(A) > fitness(B)
\* exactly when the objective's raw metric of A is smaller than that of B.
C8_FitnessStrictlyOrderReversing ==
    FitnessDone =>
        /\ FGreater(FitnessOf(1), F0)
        /\ FGreater(FitnessOf(2), F0)
        /\ FGreater(FitnessOf(1), FitnessOf(2)) <=> MetricSmaller(1, 2)

\* the first individual is no worse than the second in what the objective
\* looks at: the raw metric for cost and time, both total_time and total_cost
\* for weighted
NoWorse(first, second) ==
    IF call.objective = "cost" THEN FGeq(CostOf(second), CostOf(first))
    ELSE IF call.objective = "time" THEN FGeq(TimeOf(second), TimeOf(first))
    ELSE FGeq(TimeOf(second), TimeOf(first)) /\ FGeq(CostOf(second), CostOf(first))

\* C8: the fitness is strictly positive and never orders two candidates
\* against the raw metrics: a candidate whose metric is no larger (for
\* weighted: whose total_time and total_cost are both no larger) has a
\* fitness that is no smaller; candidates of different metrics can have the
\* same fitness.
C8_FitnessWeaklyOrderReversing ==
    FitnessDone =>
        /\ FGreater(FitnessOf(1), F0)
        /\ FGreater(FitnessOf(2), F0)
        /\ NoWorse(1, 2) => FGeq(FitnessOf(1), FitnessOf(2))
        /\ NoWorse(2, 1) => FGeq(FitnessOf(2), FitnessOf(1))

\* two candidates of different cost whose fitness under the cost objective is
\* the same float
C8_DifferentCostSameFitness ==
    /\ FitnessDone
    /\ call.objective = "cost"
    /\ FLess(CostOf(1), CostOf(2))
    /\ FitnessOf(1) = FitnessOf(2)

(***************************************************************************)
(* Properties of the operators at rate zero.                               *)
(***************************************************************************)
\* C9: with crossover_rate = 0, whatever random.random() returned, the children
\* crossover returns have the assignments of parent1 and parent2.
C9_NoCrossoverAtRateZero ==
    (pc = "crossed" /\ ca.crossover_rate = F0) =>
        /\ child1.assignment = parent1.assignment
        /\ child2.assignment = parent2.assignment

\* C10: with mutation_rate = 0, whatever random.random() returned, a call of
\* mutate leaves every position of the individual's assignment unchanged.
C10_NoMutationAtRateZero ==
    [][ca.mutation_rate = F0 =>
          /\ (pc = "influenced2" /\ pc' = "mutated1")
                 => child1'.assignment = child1.assignment
          /\ (pc = "mutated1" /\ pc' = "mutated2")
                 => child2'.assignment = child2.assignment]_vars

(***************************************************************************)
(* Properties of the generations of a run.                                 *)
(***************************************************************************)
\* every individual of the list has the assignment [0]
AllZero(individuals) ==
    \A k \in 1..Len(individuals) :
        individuals[k] = None \/ individuals[k].assignment = <<0>>

\* C11: with one task and one resource the run raises nothing, every candidate
\* of every generation has the assignment [0], and all entries of
\* best_fitness_history are equal.
C11_SingleTaskSingleResource ==
    (NumTasks = 1 /\ NumResources = 1) =>
        /\ pc # "raised"
        /\ AllZero(ca.population)
        /\ AllZero(new_population)
        /\ AllZero(<<child1, child2, returned>>)
        /\ \A i, j \in 1..Len(ca.best_fitness_history) :
               ca.best_fitness_history[i] = ca.best_fitness_history[j]

\* the size of the elite subset of the last update call
LastAcceptedSize ==
    Min(Len(ca.population),
        IF ca.generation = 0
        THEN AcceptedCount(ca.population_size, ca.acceptance_rate)
        ELSE NumAccepted(ca.population_size, ca.acceptance_rate))

\* C12: after an update whose elite subset is the single candidate E, the
\* preferred list of every task position p is exactly [E.assignment[p]].
C12_SingleElitePreferred ==
    (ca.population # <<>> /\ LastAcceptedSize = 1) =>
        \A p \in 1..NumTasks :
            ca.belief_space.normative_ranges[p].preferred
                = <<ca.population[1].assignment[p]>>

\* an update from a single elite in a population of two different candidates
\* over two resources
C12_OneEliteOfTwo ==
    /\ pc = "run_loop"
    /\ ca.generation >= 1
    /\ ca.population_size = 2
    /\ NumResources = 2
    /\ LastAcceptedSize = 1
    /\ ca.population[1].assignment # ca.population[2].assignment

\* C13: once initialize_population returned, the belief space holds a best
\* candidate whose fitness is the initial population's best, and its domain
\* statistics describe the initial population, whatever population_size *
\* acceptance_rate is.
C13_InitialUpdateHasElite ==
    (pc = "run_loop" /\ ca.generation = 0) =>
        /\ ca.belief_space.best_individual # None
        /\ ca.belief_space.best_fitness = ca.population[1].fitness
        /\ ca.belief_space.domain_stats.avg_fitness = Mean(Fitnesses(ca.population))

\* what C14 says of a state: generation counts the entries of both histories
GenerationCounted ==
    /\ Len(ca.best_fitness_history) = ca.generation
    /\ Len(ca.avg_fitness_history) = ca.generation
    /\ pc \in {"run_loop", "returned"} => ca.generation = run_generation

\* what C14 says of the end of an evolve step: the belief space was updated
\* from the new population, one entry was appended to each history, the
\* best-ever fitness and the mean fitness of the new population, and
\* generation grew by one
GenerationRecorded ==
    /\ ca'.belief_space.domain_stats.avg_fitness = Mean(Fitnesses(ca'.population))
    /\ ca'.best_fitness_history
           = Append(ca.best_fitness_history, ca'.best_individual.fitness)
    /\ ca'.avg_fitness_history
           = Append(ca.avg_fitness_history, Mean(Fitnesses(ca'.population)))
    /\ ca'.generation = ca.generation + 1

\* C14: each evolve step replaces the population, updates the belief space
\* from it, appends the best-ever fitness and the new population's mean
\* fitness to the two histories and adds one to generation; after k steps
\* generation is k and both histories have k entries.
C14_EvolveRecordsOneGeneration ==
    [](GenerationCounted) /\ [][EvolveEnds => GenerationRecorded]_vars

\* a run of two generations returned with two different mean fitnesses and a
\* best-ever fitness above that of the last population
C14_TwoGenerationsRecorded ==
    /\ pc = "returned"
    /\ ca.generation = 2
    /\ ca.avg_fitness_history[1] # ca.avg_fitness_history[2]
    /\ FGreater(ca.best_fitness_history[2], ca.population[1].fitness)

(***************************************************************************)
(* Properties of the objects of a run.                                     *)
(***************************************************************************)
\* the loop body of evolve holds two children
ChildrenAtHand == pc \in {"crossed", "influenced1", "influenced2", "mutated1", "mutated2"}

\* evolve is building new_population
Evolving == pc \in {"evolve_loop", "selected"} \/ ChildrenAtHand

\* the individuals of the list other than None
Present(individuals) == SelectSeq(individuals, LAMBDA x : x # None)

\* the candidates the run holds: the population, the two stored best
\* candidates, the list evolve is building and the children at hand
Candidates ==
    ca.population
        \o Present(<<ca.best_individual, ca.belief_space.best_individual>>)
        \o (IF Evolving THEN new_population ELSE <<>>)
        \o (IF ChildrenAtHand THEN <<child1, child2>> ELSE <<>>)

\* what C15 says of a state: no two candidates share a list object
BuffersDistinct ==
    \A i, j \in 1..Len(Candidates) :
        i # j => Candidates[i].buffer # Candidates[j].buffer

\* what C15 says of a call of influence or mutate on a child: the population,
\* the stored best candidates, the list under construction, the parents and
\* the sibling are left as they were
OthersUntouched ==
    (ChildrenAtHand /\ pc # "mutated2") =>
        /\ ca' = ca
        /\ new_population' = new_population
        /\ parent1' = parent1
        /\ parent2' = parent2
        /\ pc \in {"crossed", "influenced2"} => child2' = child2
        /\ pc \in {"influenced1", "mutated1"} => child1' = child1

\* C15: no two candidates ever share an assignment list (population members,
\* elite copies and children of both branches of crossover, the driver's and
\* the belief space's best candidate), so a call of influence or mutate on a
\* child changes no other candidate.
C15_NoSharedAssignment == [](BuffersDistinct) /\ [][OthersUntouched]_vars

\* a child copied from its parent by the no-crossover branch was changed, and
\* the parent, a member of the population, still has its own assignment
C15_CopiedChildChanged ==
    /\ pc = "mutated1"
    /\ child1.fitness = parent1.fitness
    /\ child1.assignment # parent1.assignment
    /\ \E k \in 1..Len(ca.population) : ca.population[k] = parent1

\* C16: from crossover to evaluate_fitness, the fitness and the (time, cost)
\* pair of both children are unset, whichever branch of crossover made them.
C16_ChildrenUnevaluated ==
    ChildrenAtHand =>
        /\ child1.fitness = NoneNum /\ child1.fitness_score = NoneNum
        /\ child2.fitness = NoneNum /\ child2.fitness_score = NoneNum

\* the assignments of a population, in order
Assignments(population) == [k \in 1..Len(population) |-> population[k].assignment]

\* what C17 says of the end of an evolve step
ElitesKept ==
    /\ \A i \in 1..ca.elitism_count :
           \E j \in 1..Len(ca'.population) :
               /\ ca'.population[j].assignment = ca.population[i].assignment
               /\ ca'.population[j].fitness = ca.population[i].fitness
    /\ ca.elitism_count = ca.population_size =>
           Assignments(ca'.population) = Assignments(ca.population)

\* C17: each of the top elitism_count candidates before an evolve step has a
\* candidate of the same assignment and fitness in the population after it;
\* with elitism_count = population_size no child is produced and the
\* population keeps its assignments.
C17_ElitesSurvive ==
    /\ [](ChildrenAtHand => ca.elitism_count < ca.population_size)
    /\ [][EvolveEnds => ElitesKept]_vars

\* after an evolve step of a population of two with one elite, the elite
\* stands behind a better child
C17_EliteBehindBetterChild ==
    /\ pc = "run_loop"
    /\ ca.generation = 1
    /\ ca.population_size = 2
    /\ ca.elitism_count = 1
    /\ ca.population[1].assignment = child1.assignment
    /\ FGreater(ca.population[1].fitness, ca.population[2].fitness)

\* the fitnesses of the list do not increase from one position to the next
SortedByFitness(population) ==
    \A k \in 1..(Len(population) - 1) :
        FGeq(population[k].fitness, population[k + 1].fitness)

\* C18: after initialize_population and after every evolve step the population
\* has exactly population_size candidates in non-increasing order of fitness,
\* and the list evolve builds never grows beyond population_size: the second
\* child of the last pair is dropped when one slot is left.
C18_PopulationSizedAndSorted ==
    /\ pc # "constructed" =>
           /\ Len(ca.population) = ca.population_size
           /\ SortedByFitness(ca.population)
    /\ Len(new_population) <= ca.population_size

\* an evolve step of a population of two with one elite ended; the second
\* child was evaluated, was better than everything kept, and was dropped
C18_SecondChildDropped ==
    /\ pc = "run_loop"
    /\ ca.generation = 1
    /\ ca.population_size = 2
    /\ ca.elitism_count = 1
    /\ child2.fitness # NoneNum
    /\ FGreater(child2.fitness, ca.population[1].fitness)
    /\ FGreater(ca.population[1].fitness, ca.population[2].fitness)

\* the preferred list of the task position t (1-based)
PreferredAt(t) == ca.belief_space.normative_ranges[t].preferred

\* what a call of influence that passed its gate with the draws d left at the
\* position t of the assignment after: the normative choice where the
\* normative part ran, whether or not the situational part wrote there first;
\* else the best candidate's value where the situational part wrote; else
\* the value before
InjectedInOrder(before, after, d, t) ==
    IF NormativeRuns(ca.belief_space, t, d.normative[t])
    THEN after[t] = PreferredAt(t)[d.choice[t] + 1]
    ELSE IF SituationalRuns(ca.belief_space, d.situational) /\ (t - 1) \in d.positions
    THEN after[t] = ca.belief_space.best_individual.assignment[t]
    ELSE after[t] = before[t]

\* every call of influence the child can get from the belief space of the
\* state injects in that order
InfluenceInOrder(child) ==
    \A g, u \in RandomValues :
        \A d \in InfluenceDraws(ca.belief_space, Len(child.assignment),
                                ca.influence_rate, g, u) :
            ~FGreater(g, ca.influence_rate) =>
                \A t \in 1..Len(child.assignment) :
                    InjectedInOrder(child.assignment,
                                    influence(ca.belief_space, child,
                                              ca.influence_rate, d).assignment,
                                    d, t)

\* what C19 says of a state before a call of influence
InfluenceOrdered ==
    /\ pc = "crossed" => InfluenceInOrder(child1)
    /\ pc = "influenced1" => InfluenceInOrder(child2)

\* what C19 says of a step of the loop body: the calls follow each other as
\* crossover, influence, influence, mutate, mutate, evaluate, and only the
\* evaluation sets a child's (time, cost) pair, from the assignment the
\* mutation left
OperatorsOrdered ==
    /\ pc = "selected" => pc' \in {"crossed", "raised"}
    /\ pc = "crossed" => pc' \in {"influenced1", "raised"}
    /\ pc = "influenced1" => pc' \in {"influenced2", "raised"}
    /\ pc = "influenced2" => pc' \in {"mutated1", "raised"}
    /\ pc = "mutated1" => pc' \in {"mutated2", "raised"}
    /\ pc = "mutated2" => pc' \in {"evolve_loop", "raised"}
    /\ (ChildrenAtHand /\ pc # "mutated2") =>
           /\ child1'.fitness_score = child1.fitness_score
           /\ child2'.fitness_score = child2.fitness_score
    /\ (pc = "mutated2" /\ pc' = "evolve_loop") =>
           /\ child1'.assignment = child1.assignment
           /\ child1'.fitness_score # NoneNum
           /\ child1'.fitness_score[1]
                  = SumElapsed(ca.tasks, ca.resources, child1.assignment, NumTasks)

\* C19: each child goes through crossover, influence, mutate and evaluate in
\* that order, and a call of influence applies the situational injection
\* before the normative one: a position both hit ends with a member of its
\* preferred list.
C19_OperatorOrder == [](InfluenceOrdered) /\ [][OperatorsOrdered]_vars

\* influence left at some position of the first child a value that neither
\* parent nor the belief space's best candidate has there: a preferred
\* resource of that position
C19_NormativeValueWon ==
    /\ pc = "influenced1"
    /\ ca.belief_space.best_individual # None
    /\ \E t \in 1..NumTasks :
           /\ child1.assignment[t] \notin {parent1.assignment[t], parent2.assignment[t]}
           /\ child1.assignment[t] # ca.belief_space.best_individual.assignment[t]
           /\ \E i \in 1..Len(PreferredAt(t)) : PreferredAt(t)[i] = child1.assignment[t]

\* the step is the first or the last of the belief space updates of a run
UpdateStep == pc = "constructed" \/ EvolveEnds

\* C20: the belief space changes only in update, which runs once at the end of
\* initialize_population and once at the end of each evolve step, after the
\* new population is evaluated and sorted: no field of it changes between the
\* influence of the first child and the evaluation of the last, and
\* influence does not modify it.
C20_UpdateIsBarrier ==
    [][ca'.belief_space # ca.belief_space => UpdateStep]_vars

\* in a second generation both children were changed by influence, each
\* reading the belief space the first generation's update left
C20_BothChildrenInfluenced ==
    /\ pc = "influenced2"
    /\ ca.generation = 1
    /\ ca.belief_space.best_individual # None
    /\ \E t \in 1..NumTasks :
           child1.assignment[t] \notin {parent1.assignment[t], parent2.assignment[t]}
    /\ \E t \in 1..NumTasks :
           child2.assignment[t] \notin {parent1.assignment[t], parent2.assignment[t]}

(***************************************************************************)
(* Properties of the operators called on drawn inputs.                     *)
(***************************************************************************)
\* a call of update returned
UpdateDone == call.op = "update" /\ call.done

\* the elements of a list
Elements(seq) == {seq[i] : i \in 1..Len(seq)}

\* the number of elite candidates of the call of update that assign the task
\* position p (1-based) to resource r
EliteCount(p, r) ==
    Cardinality({k \in 1..Len(call.accepted) : call.accepted[k].assignment[p] = r})

\* the largest such count at the task position p
LargestEliteCount(p) ==
    CHOOSE c \in {EliteCount(p, r) : r \in 0..(call.bs.num_resources - 1)} :
        \A r \in 0..(call.bs.num_resources - 1) : EliteCount(p, r) <= c

\* the resources whose elite count at p is at least half the largest one
HalfOfLargest(p) ==
    {r \in 0..(call.bs.num_resources - 1) : 2 * EliteCount(p, r) >= LargestEliteCount(p)}

\* the preferred list the call of update left at the task position p
PreferredAfter(p) == call.bs.normative_ranges[p].preferred

\* C21: after an update with a non-empty elite subset, the preferred set of
\* every task position is exactly the set of resources whose count among the
\* elite candidates at that position is at least half the largest such count,
\* a count equal to half included; the counts are taken over the elite subset
\* only, so the other candidates of the population do not matter.
C21_PreferredIsHalfOfLargest ==
    (UpdateDone /\ call.accepted # <<>>) =>
        \A p \in 1..call.bs.num_tasks :
            /\ Elements(PreferredAfter(p)) = HalfOfLargest(p)
            /\ Len(PreferredAfter(p)) = Cardinality(HalfOfLargest(p))

\* an update from three elite candidates of a population of four: at one
\* position the resource used by one of them is preferred next to the one used
\* by two, at another the resource only the fourth candidate uses is not
\* preferred
C21_TieAtThreshold ==
    /\ UpdateDone
    /\ Len(call.accepted) = 3
    /\ Len(call.population) = 4
    /\ \E p \in 1..call.bs.num_tasks :
           /\ LargestEliteCount(p) = 2
           /\ Cardinality(Elements(PreferredAfter(p))) = 2
    /\ \E p \in 1..call.bs.num_tasks :
           /\ LargestEliteCount(p) = 3
           /\ call.population[4].assignment[p] \notin Elements(PreferredAfter(p))

(***************************************************************************)
(* Properties of the belief space during a run.                            *)
(***************************************************************************)
\* the (candidate, position) pairs of the current population assigned to the
\* resource r (0-based)
PairsOn(r) ==
    {pair \in (1..Len(ca.population)) \X (1..NumTasks) :
        ca.population[pair[1]].assignment[pair[2]] = r}

\* the sum of the first n usage counts
RECURSIVE UsageSum(_, _)
UsageSum(usage, n) == IF n = 0 THEN 0 ELSE UsageSum(usage, n - 1) + usage[n]

\* the domain knowledge is that of the current population
DomainOfPopulation ==
    LET stats == ca.belief_space.domain_stats
    IN  /\ \A r \in 1..NumResources : stats.resource_usage[r] = Cardinality(PairsOn(r - 1))
        /\ UsageSum(stats.resource_usage, NumResources) = ca.population_size * NumTasks
        /\ stats.avg_fitness = Mean(Fitnesses(ca.population))
        /\ stats.avg_fitness = ca.avg_fitness_history[ca.generation]

\* C22: after the belief space update of every evolve step the domain
\* knowledge describes the current population only: each usage count is the
\* number of (candidate, position) pairs of the population on that resource,
\* the counts sum to population_size * task_count, and avg_fitness is the mean
\* fitness of the population; nothing is carried over from earlier
\* generations.
C22_DomainKnowledgeIsCurrent ==
    (ca.generation >= 1 /\ pc # "raised") => DomainOfPopulation

\* after a second generation whose population has another mean fitness than
\* the first, every gene of a population of two candidates and two tasks is
\* on the second resource, and the usage counts say so
C22_SecondGenerationCounted ==
    /\ pc = "run_loop"
    /\ ca.generation = 2
    /\ ca.avg_fitness_history[1] # ca.avg_fitness_history[2]
    /\ ca.population_size = 2
    /\ NumTasks = 2
    /\ ca.belief_space.domain_stats.resource_usage = <<0, 4>>

\* a call of influence returned
InfluenceDone == call.op = "influence" /\ call.done

\* the task positions (1-based) at which two assignments differ
Differing(a, b) == {t \in 1..Len(a) : a[t] # b[t]}

\* C23: after one call of influence every position of the child holds its
\* value before the call, the best-known candidate's value at that position, or
\* a member of the position's preferred set; the situational injection
\* overwrites at most max(1, floor(task_count / 3)) distinct positions and is
\* skipped when there is no best-known candidate; when the influence_rate gate
\* fails the child is unchanged.
C23_InfluenceBounded ==
    InfluenceDone =>
        /\ Len(call.individual.assignment) = Len(call.before)
        /\ Cardinality(Differing(call.injected, call.before))
               <= Max(1, Len(call.before) \div 3)
        /\ \A t \in Differing(call.injected, call.before) :
               /\ call.bs.best_individual # None
               /\ call.injected[t] = call.bs.best_individual.assignment[t]
        /\ \A t \in Differing(call.individual.assignment, call.injected) :
               call.individual.assignment[t]
                   \in Elements(call.bs.normative_ranges[t].preferred)
        /\ FGreater(call.gate, call.influence_rate) =>
               call.individual.assignment = call.before

\* a call on six genes whose situational part wrote the best candidate's
\* value at two positions, and whose normative part then put a preferred
\* resource over one of them and left the other
C23_TwoPositionsInjected ==
    /\ InfluenceDone
    /\ Len(call.before) = 6
    /\ Cardinality(Differing(call.injected, call.before)) = 2
    /\ \E t \in Differing(call.injected, call.before) :
           call.individual.assignment[t] # call.injected[t]
    /\ \E t \in Differing(call.injected, call.before) :
           call.individual.assignment[t] = call.injected[t]

\* a call of mutate returned
MutateDone == call.op = "mutate" /\ call.done

\* the task positions (1-based) the loop of the call of mutate picked
Picked == {call.genes[k][1] + 1 : k \in 1..Len(call.genes)}

\* C24: one call of mutate changes the assignment at no more than
\* max(1, floor(task_count / 4)) positions; the gate is drawn once for the
\* individual, so a call that passes it picks at least one position and a call
\* that fails it picks none; a position that was not picked keeps its value,
\* and the length of the assignment is unchanged.
C24_MutationBounded ==
    MutateDone =>
        /\ Len(call.individual.assignment) = Len(call.before)
        /\ Cardinality(Differing(call.individual.assignment, call.before))
               <= Max(1, call.num_tasks \div 4)
        /\ Differing(call.individual.assignment, call.before) \subseteq Picked
        /\ IF FGreater(call.gate, call.mutation_rate)
           THEN Picked = {} /\ call.individual.assignment = call.before
           ELSE Picked # {} /\ Cardinality(Picked) <= Max(1, call.num_tasks \div 4)

\* a call on eight genes that changed two of them
C24_TwoGenesChanged ==
    /\ MutateDone
    /\ Len(call.before) = 8
    /\ Cardinality(Differing(call.individual.assignment, call.before)) = 2

\* a call of selection returned
SelectionDone == call.op = "selection" /\ call.done

\* the parent is the member of the population at one of the positions of the
\* tournament, and no member at a position of the tournament has a higher
\* fitness
WinsTournament(parent, tournament) ==
    /\ \E i \in 1..Len(tournament) : call.population[tournament[i]] = parent
    /\ \A i \in 1..Len(tournament) :
           FGeq(parent.fitness, call.population[tournament[i]].fitness)

\* two other members of the population have no higher fitness than the parent
BeatsTwoOthers(parent) ==
    \E j, k \in 1..Len(call.population) :
        /\ j # k
        /\ call.population[j].buffer # parent.buffer
        /\ call.population[k].buffer # parent.buffer
        /\ FGeq(parent.fitness, call.population[j].fitness)
        /\ FGeq(parent.fitness, call.population[k].fitness)

\* the positions of the tournament are min(3, population_size) different
\* positions of the population
IsTournament(tournament) ==
    /\ Len(tournament) = Min(3, Len(call.population))
    /\ Elements(tournament) \subseteq 1..Len(call.population)
    /\ Cardinality(Elements(tournament)) = Len(tournament)

\* C25: selection returns two members of the current population, each the
\* highest-fitness member of its own tournament of min(3, population_size)
\* distinct members, so with population_size >= 3 each parent has a fitness >=
\* that of two other members; the population is left unchanged.
C25_ParentsWinTournaments ==
    SelectionDone =>
        /\ call.population = call.before
        /\ \A i \in 1..2 :
               /\ IsTournament(IF i = 1 THEN call.tournament1 ELSE call.tournament2)
               /\ WinsTournament(call.parents[i],
                                 IF i = 1 THEN call.tournament1 ELSE call.tournament2)
               /\ Len(call.population) >= 3 => BeatsTwoOthers(call.parents[i])

\* in a population of five, two different tournaments without the best member
\* gave the same candidate as both parents
C25_SameParentTwice ==
    /\ SelectionDone
    /\ Len(call.population) = 5
    /\ Elements(call.tournament1) # Elements(call.tournament2)
    /\ 1 \notin Elements(call.tournament1) \cup Elements(call.tournament2)
    /\ call.parents[1].buffer = call.parents[2].buffer

(***************************************************************************)
(* Properties of the cached fitness and of the two best-ever trackers.     *)
(***************************************************************************)
\* the cached (time, cost) pair and fitness of the candidate are those of its
\* current assignment under the run's objective
FitnessCurrent(x) ==
    /\ x.fitness_score = <<SumElapsed(ca.tasks, ca.resources, x.assignment, NumTasks),
                           SumCost(ca.tasks, ca.resources, x.assignment, NumTasks)>>
    /\ x.fitness = fitness_of(x.fitness_score[1], x.fitness_score[2], ca.objective)

\* the population and the two stored best candidates
Stored == ca.population \o Present(<<ca.best_individual, ca.belief_space.best_individual>>)

\* C26: at the end of initialize_population and of every evolve step each
\* candidate of the population, the driver's best-ever candidate and the
\* belief space's best candidate has the fitness and the (time, cost) pair of
\* its current assignment; every candidate evolve puts in the new population,
\* and so every candidate the sort compares, has them too, also when influence
\* or mutation changed its assignment.
C26_CachedFitnessCurrent ==
    /\ pc = "run_loop" =>
           \A k \in 1..Len(Stored) : FitnessCurrent(Stored[k])
    /\ pc = "evolve_loop" =>
           \A k \in 1..Len(new_population) : FitnessCurrent(new_population[k])

\* after an evolve step the population holds the first child, which was made
\* from one candidate as both parents and differs from it in assignment and
\* fitness: influence or mutation changed it before it was evaluated
C26_ChangedChildInPopulation ==
    /\ pc = "run_loop"
    /\ ca.generation = 1
    /\ child1 # None
    /\ parent1.assignment = parent2.assignment
    /\ child1.assignment # parent1.assignment
    /\ child1.fitness # parent1.fitness
    /\ \E k \in 1..Len(ca.population) :
           /\ ca.population[k].assignment = child1.assignment
           /\ ca.population[k].fitness = child1.fitness

\* the belief space's best fitness is the driver's best-ever fitness, and no
\* candidate of the population has a higher one
TrackersAgree ==
    /\ ca.belief_space.best_fitness = ca.best_individual.fitness
    /\ \A k \in 1..Len(ca.population) :
           FGeq(ca.best_individual.fitness, ca.population[k].fitness)

\* C27: for every permitted configuration, after initialize_population and
\* after every evolve step the belief space's stored best fitness equals the
\* driver's best-ever fitness, and both are >= the fitness of every candidate
\* of the current population.
C27_BestTrackersAgree == pc = "run_loop" => TrackersAgree

\* a call of crossover took the crossover branch and returned two children
CrossedOver ==
    /\ call.op = "crossover"
    /\ call.done
    /\ call.children # <<>>
    /\ ~FGreater(call.u, call.crossover_rate)

\* first[0..c) + second[c..)
Spliced(first, second, c) ==
    [i \in 1..Len(first) |-> IF i <= c THEN first[i] ELSE second[i]]

\* C28: when crossover takes the crossover branch with task_count >= 2, there
\* is a cut point c in 1..task_count-1 with child1 = parent1[0..c) +
\* parent2[c..) and child2 = parent2[0..c) + parent1[c..); at every position
\* the pair of the children's values is the pair of the parents' values, each
\* child has its first gene from one parent and its last from the other, and
\* crossing a parent with itself gives two children equal to it.
C28_SinglePointCrossover ==
    (CrossedOver /\ call.num_tasks >= 2) =>
        LET a == call.parent1.assignment
            b == call.parent2.assignment
            x == call.children[1].assignment
            y == call.children[2].assignment
        IN  /\ call.point \in 1..(call.num_tasks - 1)
            /\ \E c \in 1..(call.num_tasks - 1) :
                   x = Spliced(a, b, c) /\ y = Spliced(b, a, c)
            /\ Len(x) = call.num_tasks /\ Len(y) = call.num_tasks
            /\ \A i \in 1..call.num_tasks : {x[i], y[i]} = {a[i], b[i]}
            /\ x[1] = a[1] /\ x[Len(x)] = b[Len(b)]
            /\ y[1] = b[1] /\ y[Len(y)] = a[Len(a)]
            /\ call.parent1.buffer = call.parent2.buffer => (x = a /\ y = a)

\* a crossover of three genes cut after the second one, whose first child
\* differs from both parents
C28_CutAfterSecondGene ==
    /\ CrossedOver
    /\ call.num_tasks = 3
    /\ call.point = 2
    /\ call.children[1].assignment
           \notin {call.parent1.assignment, call.parent2.assignment}

\* C29: after an update with a non-empty elite subset the preferred set of
\* every position is non-empty, contains the resource most used by the elite
\* at that position and contains only resources some elite candidate uses
\* there; the largest count is positive, so the branch that falls back to the
\* full resource range is not taken, and a preferred set equal to the full
\* range means that the elite uses every resource at that position.  An update
\* with an empty elite subset leaves the lists of the construction.
C29_PreferredUsedByElite ==
    UpdateDone =>
        IF call.accepted = <<>>
        THEN call.bs = BeliefSpace(call.bs.num_tasks, call.bs.num_resources)
        ELSE \A p \in 1..call.bs.num_tasks :
                 /\ PreferredAfter(p) # <<>>
                 /\ MaxCount(call.accepted, call.bs.num_resources, p - 1) > 0
                 /\ \A r \in 0..(call.bs.num_resources - 1) :
                        EliteCount(p, r) = LargestEliteCount(p)
                            => r \in Elements(PreferredAfter(p))
                 /\ \A r \in Elements(PreferredAfter(p)) : EliteCount(p, r) >= 1
                 /\ PreferredAfter(p) = Range0(call.bs.num_resources) =>
                        \A r \in 0..(call.bs.num_resources - 1) : EliteCount(p, r) >= 1

\* an update from four elite candidates left the full range at one position,
\* where the elite uses both resources equally, and a single resource at
\* another, where one of the four uses the other resource
C29_FullRangeByRule ==
    /\ UpdateDone
    /\ Len(call.accepted) = 4
    /\ \E p \in 1..call.bs.num_tasks :
           /\ PreferredAfter(p) = Range0(call.bs.num_resources)
           /\ \A r \in 0..(call.bs.num_resources - 1) : EliteCount(p, r) = 2
    /\ \E p \in 1..call.bs.num_tasks :
           /\ Len(PreferredAfter(p)) = 1
           /\ \E r \in 0..(call.bs.num_resources - 1) : EliteCount(p, r) = 1

(***************************************************************************)
(* Properties of repeated calls of run.                                    *)
(***************************************************************************)
\* C30: each call of run on an optimizer is one fresh run, also when run was
\* called on it before: when it returns, generation is max_generations, both
\* histories have max_generations entries, and the best candidate of the
\* belief space is one seen during this call, so that its fitness is not above
\* that of the driver's best candidate of this call.
C30_EachRunIsFresh ==
    (pc = "returned" /\ call.op = "run") =>
        /\ ca.generation = ca.max_generations
        /\ Len(ca.best_fitness_history) = ca.max_generations
        /\ Len(ca.avg_fitness_history) = ca.max_generations
        /\ returned = ca.best_individual
        /\ ca.belief_space.best_individual # None =>
               ~FGreater(ca.belief_space.best_fitness, ca.best_individual.fitness)
=============================================================================
